---- MODULE Spec2Model ----
(***************************************************************************)
(* Storage backends (StateBackend, StoreBackend, FilesystemBackend,        *)
(* BaseSandbox), the CompositeBackend router and the filesystem tool       *)
(* layer of deepagents, as state machines.                                 *)
(*                                                                         *)
(* Strings are sequences of one-character strings, so that split, join,    *)
(* strip, count, replace, startswith and normpath are computed as the      *)
(* Python code computes them.                                              *)
(***************************************************************************)
EXTENDS Integers, Sequences, FiniteSets, TLC

VARIABLES
    files,      \* runtime.state["files"]: path -> FileData (StateBackend storage)
    pending,    \* files_update maps returned by StateBackend and not yet merged
    store,      \* BaseStore namespace ("filesystem",): key -> FileData value
    disk,       \* FilesystemBackend: path -> file content
    remote,     \* files of the remote sandbox behind BaseSandbox.execute
    routes,     \* CompositeBackend.routes in dict insertion order: <<prefix, backend>>
    ops,        \* number of operations performed; also the clock behind datetime.now
    last,       \* the last operation: its arguments and what it returned
    inp,        \* input string of the path-normalization and tool specifications
    pc          \* position of the path-normalization and tool specifications

vars == <<files, pending, store, disk, remote, routes, ops, last, inp, pc>>

\* ------------------------------------------------------------------ bounds
MaxOps == 2          \* operations per behaviour of the storage specification
MaxContentLen == 2   \* length of a written content
MaxPathLen == 3      \* length of a path string given to normalization
MaxBatch == 3        \* length of an upload/download batch

\* --------------------------------------------------------------- constants
MAX_LINE_LENGTH == 10000
LINE_NUMBER_WIDTH == 6

NL == "\n"
BSL == "\\"
NoPath == <<>>
EmptyMap == [k \in {} |-> 0]

\* ----------------------------------------------------- Python str helpers
SeqsUpTo(A, n) == UNION {[1..k -> A] : k \in 0..n}

Drop(s, n) == SubSeq(s, n + 1, Len(s))

Take(s, n) == SubSeq(s, 1, n)

StartsWith(s, p) == Len(p) <= Len(s) /\ Take(s, Len(p)) = p

EndsWith(s, p) == Len(p) <= Len(s) /\ Drop(s, Len(s) - Len(p)) = p

Contains(s, p) == \E i \in 0..(Len(s) - Len(p)) : SubSeq(s, i + 1, i + Len(p)) = p

Min(a, b) == IF a <= b THEN a ELSE b

\* str.split(ch): the pieces between the occurrences of ch, always at least one
RECURSIVE PySplit(_, _)
PySplit(s, ch) ==
    IF \A i \in 1..Len(s) : s[i] # ch THEN <<s>>
    ELSE LET i == CHOOSE j \in 1..Len(s) : s[j] = ch /\ \A k \in 1..(j - 1) : s[k] # ch
         IN <<Take(s, i - 1)>> \o PySplit(Drop(s, i), ch)

\* sep.join(parts)
RECURSIVE PyJoin(_, _)
PyJoin(parts, sep) ==
    IF parts = <<>> THEN <<>>
    ELSE IF Len(parts) = 1 THEN parts[1]
    ELSE parts[1] \o sep \o PyJoin(Tail(parts), sep)

\* str.splitlines() for text whose only line terminator is "\n"
PySplitLines(s) ==
    LET parts == PySplit(s, NL)
    IN IF parts[Len(parts)] = <<>> THEN Take(parts, Len(parts) - 1) ELSE parts

IsSpace(ch) == ch \in {" ", NL, "\t"}

\* str.strip() = "" : every character is whitespace
StripsToEmpty(s) == \A i \in 1..Len(s) : IsSpace(s[i])

\* str.count(old): non-overlapping occurrences, left to right
RECURSIVE PyCount(_, _)
PyCount(s, old) ==
    IF old = <<>> THEN Len(s) + 1
    ELSE IF Len(s) < Len(old) THEN 0
    ELSE IF StartsWith(s, old) THEN 1 + PyCount(Drop(s, Len(old)), old)
    ELSE PyCount(Tail(s), old)

\* str.replace(old, new, n): the first n occurrences, all of them when n < 0
RECURSIVE PyReplace(_, _, _, _)
PyReplace(s, old, new, n) ==
    IF n = 0 THEN s
    ELSE IF old = <<>> THEN
        (IF s = <<>> THEN new
         ELSE new \o <<Head(s)>> \o PyReplace(Tail(s), old, new, n - 1))
    ELSE IF Len(s) < Len(old) THEN s
    ELSE IF StartsWith(s, old) THEN new \o PyReplace(Drop(s, Len(old)), old, new, n - 1)
    ELSE <<Head(s)>> \o PyReplace(Tail(s), old, new, n)

\* ------------------------------------------------------ backends/utils.py
check_empty_content(content) == content = <<>> \/ StripsToEmpty(content)

file_data_to_string(file_data) == PyJoin(file_data.content, <<NL>>)

create_file_data(content, now) ==
    [content |-> PySplit(content, NL), created_at |-> now, modified_at |-> now]

update_file_data(file_data, content, now) ==
    [content |-> PySplit(content, NL), created_at |-> file_data.created_at, modified_at |-> now]

\* rows of one line: <<line number, chunk index, text>>; chunk index 0 is the
\* row tagged with the line number, chunk index j > 0 the row tagged "k.j"
ChunkRows(line, line_num) ==
    IF Len(line) <= MAX_LINE_LENGTH THEN << <<line_num, 0, line>> >>
    ELSE LET num_chunks == (Len(line) + MAX_LINE_LENGTH - 1) \div MAX_LINE_LENGTH
         IN [j \in 1..num_chunks |->
                <<line_num, j - 1,
                  SubSeq(line, (j - 1) * MAX_LINE_LENGTH + 1,
                         Min((j - 1) * MAX_LINE_LENGTH + MAX_LINE_LENGTH, Len(line)))>>]

RECURSIVE format_content_with_line_numbers(_, _)
format_content_with_line_numbers(lines, start_line) ==
    IF lines = <<>> THEN <<>>
    ELSE ChunkRows(Head(lines), start_line)
         \o format_content_with_line_numbers(Tail(lines), start_line + 1)

\* what read returns: kind "rows" (numbered rows), "empty" (the empty-file
\* notice), "offset_error" or "not_found"
ReadOut(kind, rows) == [kind |-> kind, rows |-> rows]

FormatLines(content, offset, limit) ==
    IF check_empty_content(content) THEN ReadOut("empty", <<>>)
    ELSE LET lines == PySplitLines(content)
             end_idx == Min(offset + limit, Len(lines))
         IN IF offset >= Len(lines) THEN ReadOut("offset_error", <<>>)
            ELSE ReadOut("rows",
                         format_content_with_line_numbers(SubSeq(lines, offset + 1, end_idx),
                                                          offset + 1))

format_read_response(file_data, offset, limit) ==
    FormatLines(file_data_to_string(file_data), offset, limit)

\* (new_content, occurrences) or an error
\* the replacement without the refusal of an ambiguous match
perform_string_replacement_first_match(content, old_string, new_string, replace_all) ==
    LET occurrences == PyCount(content, old_string)
    IN IF occurrences = 0 THEN [error |-> "string_not_found", content |-> content, occurrences |-> 0]
       ELSE [error |-> "none",
             content |-> PyReplace(content, old_string, new_string, IF replace_all THEN -1 ELSE 1),
             occurrences |-> IF replace_all THEN occurrences ELSE 1]

perform_string_replacement(content, old_string, new_string, replace_all) ==
    LET occurrences == PyCount(content, old_string)
    IN IF occurrences = 0 THEN [error |-> "string_not_found", content |-> content, occurrences |-> 0]
       ELSE IF occurrences > 1 /\ ~replace_all
            THEN [error |-> "multiple_occurrences", content |-> content, occurrences |-> 0]
       ELSE [error |-> "none",
             content |-> PyReplace(content, old_string, new_string, -1),
             occurrences |-> occurrences]

\* ------------------------------------------------- results and the world
\* the four storages as one value, so that a backend operation is a function
World(f, st, d, r) == [files |-> f, store |-> st, disk |-> d, remote |-> r]

Now == World(files, store, disk, remote)

\* WriteResult / EditResult: error "none" is None, path NoPath is None
Result(error, path, has_update, files_update, occurrences) ==
    [error |-> error, path |-> path, has_update |-> has_update,
     files_update |-> files_update, occurrences |-> occurrences]

Failed(error) == Result(error, NoPath, FALSE, EmptyMap, 0)

Done(res, w) == [res |-> res, world |-> w]

Put(map, key, value) == (key :> value) @@ map

\* ---------------------------------------------------- backends/state.py
StateWrite(w, file_path, content, now) ==
    IF file_path \in DOMAIN w.files THEN Done(Failed("already_exists"), w)
    ELSE Done(Result("none", file_path, TRUE,
                     (file_path :> create_file_data(content, now)), 0), w)

StateEdit(w, file_path, old_string, new_string, replace_all, now) ==
    IF file_path \notin DOMAIN w.files THEN Done(Failed("not_found"), w)
    ELSE LET file_data == w.files[file_path]
             result == perform_string_replacement(file_data_to_string(file_data),
                                                  old_string, new_string, replace_all)
         IN IF result.error # "none" THEN Done(Failed(result.error), w)
            ELSE Done(Result("none", file_path, TRUE,
                             (file_path :> update_file_data(file_data, result.content, now)),
                             result.occurrences), w)

StateRead(w, file_path, offset, limit) ==
    IF file_path \notin DOMAIN w.files THEN ReadOut("not_found", <<>>)
    ELSE format_read_response(w.files[file_path], offset, limit)

\* ---------------------------------------------------- backends/store.py
\* a write without the existence check
StoreWrite_overwriting(w, file_path, content, now) ==
    Done(Result("none", file_path, FALSE, EmptyMap, 0),
         [w EXCEPT !.store = Put(w.store, file_path, create_file_data(content, now))])

StoreWrite(w, file_path, content, now) ==
    IF file_path \in DOMAIN w.store THEN Done(Failed("already_exists"), w)
    ELSE Done(Result("none", file_path, FALSE, EmptyMap, 0),
              [w EXCEPT !.store = Put(w.store, file_path, create_file_data(content, now))])

StoreEdit(w, file_path, old_string, new_string, replace_all, now) ==
    IF file_path \notin DOMAIN w.store THEN Done(Failed("not_found"), w)
    ELSE LET file_data == w.store[file_path]
             result == perform_string_replacement(file_data_to_string(file_data),
                                                  old_string, new_string, replace_all)
         IN IF result.error # "none" THEN Done(Failed(result.error), w)
            ELSE Done(Result("none", file_path, FALSE, EmptyMap, result.occurrences),
                      [w EXCEPT !.store = Put(w.store, file_path,
                                              update_file_data(file_data, result.content, now))])

StoreRead(w, file_path, offset, limit) ==
    IF file_path \notin DOMAIN w.store THEN ReadOut("not_found", <<>>)
    ELSE format_read_response(w.store[file_path], offset, limit)

\* ----------------------------------------------- backends/filesystem.py
FilesystemWrite(w, file_path, content) ==
    IF file_path \in DOMAIN w.disk THEN Done(Failed("already_exists"), w)
    ELSE Done(Result("none", file_path, FALSE, EmptyMap, 0),
              [w EXCEPT !.disk = Put(w.disk, file_path, content)])

FilesystemEdit(w, file_path, old_string, new_string, replace_all) ==
    IF file_path \notin DOMAIN w.disk THEN Done(Failed("not_found"), w)
    ELSE LET result == perform_string_replacement(w.disk[file_path],
                                                  old_string, new_string, replace_all)
         IN IF result.error # "none" THEN Done(Failed(result.error), w)
            ELSE Done(Result("none", file_path, FALSE, EmptyMap, result.occurrences),
                      [w EXCEPT !.disk = Put(w.disk, file_path, result.content)])

FilesystemRead(w, file_path, offset, limit) ==
    IF file_path \notin DOMAIN w.disk THEN ReadOut("not_found", <<>>)
    ELSE FormatLines(w.disk[file_path], offset, limit)

\* -------------------------------------------------- backends/sandbox.py
\* the scripts run by execute: exit code, printed count, files afterwards
Executed(exit_code, count, r) == [exit_code |-> exit_code, count |-> count, remote |-> r]

\* _WRITE_COMMAND_TEMPLATE: exit 1 when the path exists, else the file is written
WriteScript(r, file_path, content) ==
    IF file_path \in DOMAIN r THEN Executed(1, 0, r)
    ELSE Executed(0, 0, Put(r, file_path, content))

\* _EDIT_COMMAND_TEMPLATE: open() of an absent file raises, and the interpreter
\* exits with code 1
EditScript(r, file_path, old, new, replace_all) ==
    IF file_path \notin DOMAIN r THEN Executed(1, 0, r)
    ELSE LET text == r[file_path]
             count == PyCount(text, old)
         IN IF count = 0 THEN Executed(1, 0, r)
            ELSE IF count > 1 /\ ~replace_all THEN Executed(2, 0, r)
            ELSE Executed(0, count,
                          Put(r, file_path,
                              IF replace_all THEN PyReplace(text, old, new, -1)
                              ELSE PyReplace(text, old, new, 1)))

SandboxWrite(w, file_path, content) ==
    LET result == WriteScript(w.remote, file_path, content)
    IN IF result.exit_code # 0 THEN Done(Failed("already_exists"), w)
       ELSE Done(Result("none", file_path, FALSE, EmptyMap, 0),
                 [w EXCEPT !.remote = result.remote])

SandboxEdit(w, file_path, old_string, new_string, replace_all) ==
    LET result == EditScript(w.remote, file_path, old_string, new_string, replace_all)
    IN IF result.exit_code = 1 THEN Done(Failed("string_not_found"), w)
       ELSE IF result.exit_code = 2 THEN Done(Failed("multiple_occurrences"), w)
       ELSE IF result.exit_code # 0 THEN Done(Failed("not_found"), w)
       ELSE Done(Result("none", file_path, FALSE, EmptyMap, result.count),
                 [w EXCEPT !.remote = result.remote])

\* ------------------------------------------------------ backend dispatch
Backends == {"state", "store", "disk", "sandbox"}

BackendWrite(b, w, file_path, content, now) ==
    CASE b = "state" -> StateWrite(w, file_path, content, now)
      [] b = "store" -> StoreWrite(w, file_path, content, now)
      [] b = "disk" -> FilesystemWrite(w, file_path, content)
      [] OTHER -> SandboxWrite(w, file_path, content)

BackendEdit(b, w, file_path, old_string, new_string, replace_all, now) ==
    CASE b = "state" -> StateEdit(w, file_path, old_string, new_string, replace_all, now)
      [] b = "store" -> StoreEdit(w, file_path, old_string, new_string, replace_all, now)
      [] b = "disk" -> FilesystemEdit(w, file_path, old_string, new_string, replace_all)
      [] OTHER -> SandboxEdit(w, file_path, old_string, new_string, replace_all)

\* read of the three backends that format with format_content_with_line_numbers
BackendRead(b, w, file_path, offset, limit) ==
    CASE b = "state" -> StateRead(w, file_path, offset, limit)
      [] b = "store" -> StoreRead(w, file_path, offset, limit)
      [] OTHER -> FilesystemRead(w, file_path, offset, limit)

\* ------------------------------------------------ backends/composite.py
DefaultBackend == "state"

\* backends that carry a runtime attribute (the shared agent state)
HasRuntime(b) == b \in {"state", "store"}

\* insertion into a list kept in descending order of prefix length, behind the
\* entries of the same length (sorted() is stable)
RECURSIVE InsertByLen(_, _)
InsertByLen(sorted, e) ==
    IF sorted = <<>> THEN <<e>>
    ELSE IF Len(Head(sorted)[1]) < Len(e[1]) THEN <<e>> \o sorted
    ELSE <<Head(sorted)>> \o InsertByLen(Tail(sorted), e)

\* sorted(routes.items(), key=lambda x: len(x[0]), reverse=True)
RECURSIVE sorted_routes(_)
sorted_routes(rs) ==
    IF rs = <<>> THEN <<>>
    ELSE InsertByLen(sorted_routes(SubSeq(rs, 1, Len(rs) - 1)), rs[Len(rs)])

Resolved(backend, key) == [backend |-> backend, key |-> key]

RECURSIVE ScanRoutes(_, _)
ScanRoutes(sorted, key) ==
    IF sorted = <<>> THEN Resolved(DefaultBackend, key)
    ELSE IF StartsWith(key, Head(sorted)[1])
         THEN Resolved(Head(sorted)[2], <<"/">> \o Drop(key, Len(Head(sorted)[1])))
    ELSE ScanRoutes(Tail(sorted), key)

\* the resolution over the routes in insertion order
_get_backend_and_key_unsorted(rs, key) == ScanRoutes(rs, key)

_get_backend_and_key(rs, key) == ScanRoutes(sorted_routes(rs), key)

\* files.update(res.files_update) on the default backend's runtime state
\* the router that returns the update without merging it
MergeIntoDefault_skipped(done) == done

MergeIntoDefault(done) ==
    IF done.res.has_update /\ DOMAIN done.res.files_update # {} /\ HasRuntime(DefaultBackend)
    THEN Done(done.res, [done.world EXCEPT !.files = done.res.files_update @@ done.world.files])
    ELSE done

CompositeWrite(rs, w, file_path, content, now) ==
    LET r == _get_backend_and_key(rs, file_path)
    IN MergeIntoDefault(BackendWrite(r.backend, w, r.key, content, now))

CompositeEdit(rs, w, file_path, old_string, new_string, replace_all, now) ==
    LET r == _get_backend_and_key(rs, file_path)
    IN MergeIntoDefault(BackendEdit(r.backend, w, r.key, old_string, new_string, replace_all, now))

CompositeRead(rs, w, file_path, offset, limit) ==
    LET r == _get_backend_and_key(rs, file_path)
    IN BackendRead(r.backend, w, r.key, offset, limit)

\* ---------------------------------------------- middleware/filesystem.py
\* the deletion marker (None) of an update map
Tombstone == [content |-> <<>>, created_at |-> -1, modified_at |-> -1]

\* the merge that keeps the entries of the update as they are
_file_data_reducer_keeping(left, right) ==
    [k \in DOMAIN left \cup DOMAIN right |-> IF k \in DOMAIN right THEN right[k] ELSE left[k]]

_file_data_reducer(left, right) ==
    LET deleted == {k \in DOMAIN right : right[k] = Tombstone}
    IN [k \in (DOMAIN left \cup DOMAIN right) \ deleted |->
            IF k \in DOMAIN right THEN right[k] ELSE left[k]]

\* ------------------------------------------- inputs of the storage model
ContentAlphabet == {"a", NL}

Contents == SeqsUpTo(ContentAlphabet, MaxContentLen)

KeyX == <<"/", "x">>

Keys == {KeyX}

MainRoutes == << <<(<<"/", "m", "/">>), "store">>, <<(<<"/", "d", "/">>), "disk">> >>

RouterPaths == {KeyX, <<"/", "m", "/", "x">>, <<"/", "d", "/", "x">>}

OldStrings == {<<"a">>}

NewStrings == {<<"b">>, <<" ">>}

Offsets == {0, 1}

DEFAULT_LIMIT == 2000

Limits == {1, DEFAULT_LIMIT}

NoOut == ReadOut("none", <<>>)

\* the record of an operation; the fields an operation does not have stay empty
NoOp ==
    [op |-> "none", via |-> "none", backend |-> "none", path |-> NoPath, key |-> NoPath,
     content |-> <<>>, old |-> <<>>, new |-> <<>>, replace_all |-> FALSE,
     offset |-> 0, limit |-> 0, res |-> Failed("none"), out |-> NoOut, n |-> 0]

\* ------------------------------------------------- storage specification
Init ==
    /\ files = EmptyMap
    /\ pending = <<>>
    /\ store = EmptyMap
    /\ disk = EmptyMap
    /\ remote = EmptyMap
    /\ routes = MainRoutes
    /\ ops = 0
    /\ last = NoOp
    /\ inp = <<>>
    /\ pc = "storage"

SetWorld(w) ==
    /\ files' = w.files
    /\ store' = w.store
    /\ disk' = w.disk
    /\ remote' = w.remote

\* the caller of a StateBackend keeps the returned update until it is merged
Queue(b, res) == IF b = "state" /\ res.has_update THEN Append(pending, res.files_update) ELSE pending

\* backend.write(file_path, content) on one backend
Write(b, p, c) ==
    /\ pc = "storage" /\ ops < MaxOps
    /\ LET done == BackendWrite(b, Now, p, c, ops + 1)
       IN /\ SetWorld(done.world)
          /\ pending' = Queue(b, done.res)
          /\ last' = [NoOp EXCEPT !.op = "write", !.via = "direct", !.backend = b, !.path = p,
                                  !.key = p, !.content = c, !.res = done.res, !.n = ops + 1]
    /\ ops' = ops + 1
    /\ UNCHANGED <<routes, inp, pc>>

\* CompositeBackend.write(file_path, content)
RouterWrite(p, c) ==
    /\ pc = "storage" /\ ops < MaxOps
    /\ LET done == CompositeWrite(routes, Now, p, c, ops + 1)
           r == _get_backend_and_key(routes, p)
       IN /\ SetWorld(done.world)
          /\ last' = [NoOp EXCEPT !.op = "write", !.via = "router", !.backend = r.backend,
                                  !.path = p, !.key = r.key, !.content = c, !.res = done.res,
                                  !.n = ops + 1]
    /\ ops' = ops + 1
    /\ UNCHANGED <<pending, routes, inp, pc>>

\* backend.edit(file_path, old_string, new_string, replace_all) on one backend
Edit(b, p, old, new, all) ==
    /\ pc = "storage" /\ ops < MaxOps
    /\ LET done == BackendEdit(b, Now, p, old, new, all, ops + 1)
       IN /\ SetWorld(done.world)
          /\ pending' = Queue(b, done.res)
          /\ last' = [NoOp EXCEPT !.op = "edit", !.via = "direct", !.backend = b, !.path = p,
                                  !.key = p, !.old = old, !.new = new, !.replace_all = all,
                                  !.res = done.res, !.n = ops + 1]
    /\ ops' = ops + 1
    /\ UNCHANGED <<routes, inp, pc>>

\* CompositeBackend.edit(file_path, old_string, new_string, replace_all)
RouterEdit(p, old, new, all) ==
    /\ pc = "storage" /\ ops < MaxOps
    /\ LET done == CompositeEdit(routes, Now, p, old, new, all, ops + 1)
           r == _get_backend_and_key(routes, p)
       IN /\ SetWorld(done.world)
          /\ last' = [NoOp EXCEPT !.op = "edit", !.via = "router", !.backend = r.backend,
                                  !.path = p, !.key = r.key, !.old = old, !.new = new,
                                  !.replace_all = all, !.res = done.res, !.n = ops + 1]
    /\ ops' = ops + 1
    /\ UNCHANGED <<pending, routes, inp, pc>>

\* backend.read(file_path, offset, limit) on one backend
Read(b, p, offset, limit) ==
    /\ pc = "storage" /\ ops < MaxOps
    /\ last' = [NoOp EXCEPT !.op = "read", !.via = "direct", !.backend = b, !.path = p,
                            !.key = p, !.offset = offset, !.limit = limit,
                            !.out = BackendRead(b, Now, p, offset, limit), !.n = ops + 1]
    /\ ops' = ops + 1
    /\ UNCHANGED <<files, pending, store, disk, remote, routes, inp, pc>>

\* CompositeBackend.read(file_path, offset, limit)
RouterRead(p, offset, limit) ==
    /\ pc = "storage" /\ ops < MaxOps
    /\ LET r == _get_backend_and_key(routes, p)
       IN last' = [NoOp EXCEPT !.op = "read", !.via = "router", !.backend = r.backend,
                               !.path = p, !.key = r.key, !.offset = offset, !.limit = limit,
                               !.out = CompositeRead(routes, Now, p, offset, limit),
                               !.n = ops + 1]
    /\ ops' = ops + 1
    /\ UNCHANGED <<files, pending, store, disk, remote, routes, inp, pc>>

\* the runtime merges the oldest returned update into the shared file map
MergePending ==
    /\ pc = "storage" /\ pending # <<>>
    /\ files' = _file_data_reducer(files, Head(pending))
    /\ pending' = Tail(pending)
    /\ last' = [NoOp EXCEPT !.op = "merge", !.n = last.n]
    /\ UNCHANGED <<store, disk, remote, routes, ops, inp, pc>>

Next ==
    \/ \E b \in Backends, p \in Keys, c \in Contents : Write(b, p, c)
    \/ \E p \in RouterPaths, c \in Contents : RouterWrite(p, c)
    \/ \E b \in Backends, p \in Keys, old \in OldStrings, new \in NewStrings, all \in BOOLEAN :
          Edit(b, p, old, new, all)
    \/ \E p \in RouterPaths, old \in OldStrings, new \in NewStrings, all \in BOOLEAN :
          RouterEdit(p, old, new, all)
    \/ \E b \in Backends \ {"sandbox"}, p \in Keys, offset \in Offsets, limit \in Limits :
          Read(b, p, offset, limit)
    \/ \E p \in RouterPaths, offset \in Offsets, limit \in Limits : RouterRead(p, offset, limit)
    \/ MergePending

Spec == Init /\ [][Next]_vars

\* ------------------------------------------------- what the claims speak of
\* a step of the storage specification that performed operation op
Performed(op) == ops' # ops /\ last'.op = op

Exists(b, w, key) ==
    CASE b = "state" -> key \in DOMAIN w.files
      [] b = "store" -> key \in DOMAIN w.store
      [] b = "disk" -> key \in DOMAIN w.disk
      [] OTHER -> key \in DOMAIN w.remote

\* the stored text of an existing file
StoredText(b, w, key) ==
    CASE b = "state" -> file_data_to_string(w.files[key])
      [] b = "store" -> file_data_to_string(w.store[key])
      [] b = "disk" -> w.disk[key]
      [] OTHER -> w.remote[key]

\* the world once the effect of the last operation is applied: an update
\* returned by a directly called StateBackend is merged into the file map
Applied ==
    IF last.via = "direct" /\ last.backend = "state" /\ last.res.has_update
    THEN [Now EXCEPT !.files = _file_data_reducer(files, last.res.files_update)]
    ELSE Now

\* read of the path of the last operation, the way the operation was issued
ReadBack(w, offset, limit) ==
    IF last.via = "router" THEN CompositeRead(routes, w, last.path, offset, limit)
    ELSE BackendRead(last.backend, w, last.path, offset, limit)

\* the lines of a text: the pieces between line feeds, a final line feed
\* ending the last line
LinesOfText(c) ==
    LET parts == PySplit(c, NL)
    IN IF Len(parts) > 0 /\ parts[Len(parts)] = <<>> THEN SubSeq(parts, 1, Len(parts) - 1)
       ELSE parts

NumberedFromOne(lines) == [i \in 1..Len(lines) |-> <<i, 0, lines[i]>>]

\* what read is to show for a stored text: its numbered lines, and the
\* empty-file notice for the zero-length text only
ExpectedRead(c) ==
    IF c = <<>> THEN ReadOut("empty", <<>>)
    ELSE ReadOut("rows", NumberedFromOne(LinesOfText(c)))

ReadLimits(c) == {Len(LinesOfText(c)), Len(LinesOfText(c)) + 1, DEFAULT_LIMIT}

\* ---------------------------------------------------------------- claims
\* C1: after a successful write(p, c) of a content c that is not zero-length
\* to a new path, with its effect applied, read(p) with offset 0 and a limit
\* of at least the number of lines returns the lines of c numbered from 1,
\* never the empty-file notice or an error (StateBackend, StoreBackend,
\* FilesystemBackend and CompositeBackend).
C1_WriteThenReadReturnsContent ==
    (last.op = "write" /\ last.res.error = "none" /\ last.content # <<>>
        /\ last.backend # "sandbox")
    => \A limit \in ReadLimits(last.content) :
          limit >= Len(LinesOfText(last.content))
          => ReadBack(Applied, 0, limit) = ReadOut("rows", NumberedFromOne(LinesOfText(last.content)))

\* C2: write is create-only on every backend: a write to a path that a
\* backend already stores returns a result whose error is set and whose path
\* is empty, returns no update, and leaves every stored file as it was, so a
\* following read shows the same content.
C2_WriteIsCreateOnly ==
    [][(Performed("write") /\ Exists(last'.backend, Now, last'.key))
        => /\ last'.res.error # "none"
           /\ last'.res.path = NoPath
           /\ ~last'.res.has_update
           /\ Now' = Now
           /\ StoredText(last'.backend, Now', last'.key) = StoredText(last'.backend, Now, last'.key)
           /\ (last'.backend # "sandbox"
                 => BackendRead(last'.backend, Now', last'.key, 0, DEFAULT_LIMIT)
                    = BackendRead(last'.backend, Now, last'.key, 0, DEFAULT_LIMIT))]_vars

\* a second write with another content was refused
C2_Witness ==
    /\ last.op = "write" /\ last.res.error = "already_exists"
    /\ StoredText(last.backend, Now, last.key) # last.content

\* C3: edit without replace_all returns an error and leaves the content and
\* the timestamps of every file unchanged when the path is absent, when old
\* occurs zero times, and when old occurs more than once (occurrences counted
\* left to right without overlap); no occurrence is picked.
C3_EditRejectsAbsentMissingAmbiguous ==
    [][(Performed("edit") /\ ~last'.replace_all
          /\ (\/ ~Exists(last'.backend, Now, last'.key)
              \/ PyCount(StoredText(last'.backend, Now, last'.key), last'.old) # 1))
        => /\ last'.res.error # "none"
           /\ ~last'.res.has_update
           /\ last'.res.occurrences = 0
           /\ Now' = Now]_vars

\* an edit whose old string occurs twice was refused
C3_Witness ==
    /\ last.op = "edit" /\ ~last.replace_all /\ last.res.error # "none"
    /\ Exists(last.backend, Now, last.key)
    /\ PyCount(StoredText(last.backend, Now, last.key), last.old) > 1

\* C4: a successful edit stores the previous content with old replaced by new
\* (the one occurrence, or every occurrence under replace_all), returns the
\* number of replacements, keeps created_at, and a following read shows the
\* new content.
C4_EditReplacesAndReadReflects ==
    [][(Performed("edit") /\ last'.res.error = "none")
        => LET b == last'.backend
               key == last'.key
               before == StoredText(b, Now, key)
               after == StoredText(b, Applied', key)
           IN /\ after = PyReplace(before, last'.old, last'.new, -1)
              /\ last'.res.occurrences = PyCount(before, last'.old)
              /\ (~last'.replace_all => last'.res.occurrences = 1)
              /\ (b = "state" => Applied'.files[key].created_at = files[key].created_at)
              /\ (b = "store" => store'[key].created_at = store[key].created_at)
              /\ (b # "sandbox" => ReadBack(Applied, 0, DEFAULT_LIMIT)' = ExpectedRead(after))]_vars

\* the part of C4 that is about the stored record alone
C4_EditReplaces ==
    [][(Performed("edit") /\ last'.res.error = "none")
        => LET b == last'.backend
               key == last'.key
               before == StoredText(b, Now, key)
               after == StoredText(b, Applied', key)
           IN /\ after = PyReplace(before, last'.old, last'.new, -1)
              /\ last'.res.occurrences = PyCount(before, last'.old)
              /\ (~last'.replace_all => last'.res.occurrences = 1)
              /\ (b = "state" => Applied'.files[key].created_at = files[key].created_at)
              /\ (b = "store" => store'[key].created_at = store[key].created_at)]_vars

\* ------------------------------- middleware/filesystem.py: _validate_path
\* os.path.normpath of posixpath
RECURSIVE NormComps(_, _, _)
NormComps(comps, new_comps, initial_slashes) ==
    IF comps = <<>> THEN new_comps
    ELSE LET comp == Head(comps)
         IN IF comp = <<>> \/ comp = <<".">> THEN NormComps(Tail(comps), new_comps, initial_slashes)
            ELSE IF \/ comp # <<".", ".">>
                    \/ (initial_slashes = 0 /\ new_comps = <<>>)
                    \/ (new_comps # <<>> /\ new_comps[Len(new_comps)] = <<".", ".">>)
                 THEN NormComps(Tail(comps), Append(new_comps, comp), initial_slashes)
            ELSE IF new_comps # <<>>
                 THEN NormComps(Tail(comps), SubSeq(new_comps, 1, Len(new_comps) - 1), initial_slashes)
            ELSE NormComps(Tail(comps), new_comps, initial_slashes)

normpath(path) ==
    IF path = <<>> THEN <<".">>
    ELSE LET initial_slashes ==
                 IF ~StartsWith(path, <<"/">>) THEN 0
                 ELSE IF StartsWith(path, <<"/", "/">>) /\ ~StartsWith(path, <<"/", "/", "/">>) THEN 2
                 ELSE 1
             joined == PyJoin(NormComps(PySplit(path, "/"), <<>>, initial_slashes), <<"/">>)
             result == [i \in 1..initial_slashes |-> "/"] \o joined
         IN IF result = <<>> THEN <<".">> ELSE result

\* str.replace of one character by another
ReplaceChar(s, from, to) == [i \in 1..Len(s) |-> IF s[i] = from THEN to ELSE s[i]]

Letters ==
    {"a", "b", "c", "d", "e", "f", "g", "h", "i", "j", "k", "l", "m",
     "n", "o", "p", "q", "r", "s", "t", "u", "v", "w", "x", "y", "z",
     "A", "B", "C", "D", "E", "F", "G", "H", "I", "J", "K", "L", "M",
     "N", "O", "P", "Q", "R", "S", "T", "U", "V", "W", "X", "Y", "Z"}

\* re.match(r"^[a-zA-Z]:", path)
DrivePrefix(path) == Len(path) >= 2 /\ path[1] \in Letters /\ path[2] = ":"

Accepted(path) == [ok |-> TRUE, path |-> path]

Rejected == [ok |-> FALSE, path |-> NoPath]

\* the normalization without the refusal of ".."
_validate_path_without_traversal_check(path) ==
    IF StartsWith(path, <<"~">>) THEN Rejected
    ELSE IF DrivePrefix(path) THEN Rejected
    ELSE LET normalized == ReplaceChar(normpath(path), BSL, "/")
         IN IF ~StartsWith(normalized, <<"/">>) THEN Accepted(<<"/">> \o normalized)
            ELSE Accepted(normalized)

\* _validate_path(path) with allowed_prefixes=None; Rejected is the ValueError
_validate_path(path) ==
    IF Contains(path, <<".", ".">>) \/ StartsWith(path, <<"~">>) THEN Rejected
    ELSE IF DrivePrefix(path) THEN Rejected
    ELSE LET normalized == ReplaceChar(normpath(path), BSL, "/")
         IN IF ~StartsWith(normalized, <<"/">>) THEN Accepted(<<"/">> \o normalized)
            ELSE Accepted(normalized)

\* -------------------------------------- path-normalization specification
PathAlphabet == {"/", BSL, ".", "a", "~", ":"}

DotFooBar == <<".", "/", "f", "o", "o", "/", "/", "b", "a", "r">>

SlashFooBar == <<"/", "f", "o", "o", "/", "b", "a", "r">>

DotDotEtcPasswd == <<".", ".", "/", "e", "t", "c", "/", "p", "a", "s", "s", "w", "d">>

PathInputs == SeqsUpTo(PathAlphabet, MaxPathLen) \cup {DotFooBar, DotDotEtcPasswd}

Idle ==
    /\ files = EmptyMap
    /\ pending = <<>>
    /\ store = EmptyMap
    /\ disk = EmptyMap
    /\ remote = EmptyMap
    /\ routes = <<>>
    /\ ops = 0
    /\ last = NoOp

InitPath ==
    /\ Idle
    /\ inp \in PathInputs
    /\ pc = "path"

\* _validate_path(inp)
Normalize ==
    /\ pc = "path"
    /\ last' = [op |-> "normalize", first |-> _validate_path(inp), second |-> Rejected]
    /\ pc' = "normalized"
    /\ UNCHANGED <<files, pending, store, disk, remote, routes, ops, inp>>

\* _validate_path of the path that _validate_path returned
Renormalize ==
    /\ pc = "normalized" /\ last.first.ok
    /\ last' = [last EXCEPT !.op = "renormalize", !.second = _validate_path(last.first.path)]
    /\ pc' = "renormalized"
    /\ UNCHANGED <<files, pending, store, disk, remote, routes, ops, inp>>

NextPath == Normalize \/ Renormalize

SpecPath == InitPath /\ [][NextPath]_vars

\* segments of a path string, split at '/' and at '\'
Segments(p) == PySplit(ReplaceChar(p, BSL, "/"), "/")

HasDotDotSegment(p) == \E i \in 1..Len(Segments(p)) : Segments(p)[i] = <<".", ".">>

HasChar(p, ch) == \E i \in 1..Len(p) : p[i] = ch

\* C9: a path returned by normalization starts with '/', has no backslash,
\* no '..' segment and no drive-letter prefix; an input that has a '..'
\* segment, starts with '~' or starts with a drive letter is rejected;
\* './foo//bar' gives '/foo/bar' and '../etc/passwd' is rejected.
C9_NormalizedPathIsSafe ==
    pc = "normalized"
    => /\ last.first.ok
          => /\ StartsWith(last.first.path, <<"/">>)
             /\ ~HasChar(last.first.path, BSL)
             /\ ~HasDotDotSegment(last.first.path)
             /\ ~DrivePrefix(last.first.path)
       /\ (HasDotDotSegment(inp) \/ StartsWith(inp, <<"~">>) \/ DrivePrefix(inp))
          => ~last.first.ok
       /\ inp = DotFooBar => last.first = Accepted(SlashFooBar)
       /\ inp = DotDotEtcPasswd => ~last.first.ok

\* './foo//bar' has been normalized to '/foo/bar'
C9_Witness == pc = "normalized" /\ inp = DotFooBar /\ last.first.path = SlashFooBar

\* C10: normalization is idempotent: the result of an accepted path is
\* accepted again and normalizes to itself.
C10_NormalizationIdempotent ==
    pc = "renormalized" => (last.second.ok /\ last.second.path = last.first.path)

\* ------------------------------------------ filesystem tool specification
\* the tools run on the middleware's default backend, a StateBackend
ToolContents == {<<"a">>}

KeyA == <<"/", "a">>

ToolOp(op) == [op |-> op, raised |-> FALSE, calls |-> <<>>, res |-> Failed("none"), out |-> NoOut]

\* a backend method and the path it was invoked with
Call(method, path) == <<method, path>>

InitTools ==
    /\ files \in {EmptyMap, (KeyA :> create_file_data(<<"a">>, 0))}
    /\ pending = <<>>
    /\ store = EmptyMap
    /\ disk = EmptyMap
    /\ remote = EmptyMap
    /\ routes = <<>>
    /\ ops = 0
    /\ last = NoOp
    /\ inp \in PathInputs
    /\ pc = "tool"

\* sync_ls: the listing itself changes nothing and is not part of this model
LsTool ==
    /\ pc = "tool"
    /\ LET validated == _validate_path(inp)
       IN last' = IF ~validated.ok THEN [ToolOp("ls") EXCEPT !.raised = TRUE]
                  ELSE [ToolOp("ls") EXCEPT !.calls = <<Call("ls_info", validated.path)>>]
    /\ pc' = "called"
    /\ UNCHANGED <<files, pending, store, disk, remote, routes, ops, inp>>

\* sync_read_file
ReadFileTool(offset, limit) ==
    /\ pc = "tool"
    /\ LET validated == _validate_path(inp)
       IN last' = IF ~validated.ok THEN [ToolOp("read_file") EXCEPT !.raised = TRUE]
                  ELSE [ToolOp("read_file") EXCEPT
                            !.calls = <<Call("read", validated.path)>>,
                            !.out = StateRead(Now, validated.path, offset, limit)]
    /\ pc' = "called"
    /\ UNCHANGED <<files, pending, store, disk, remote, routes, ops, inp>>

\* sync_write_file: a returned update leaves in a Command for the runtime to merge
WriteFileTool(content) ==
    /\ pc = "tool"
    /\ LET validated == _validate_path(inp)
           done == StateWrite(Now, validated.path, content, ops + 1)
       IN IF ~validated.ok
          THEN /\ last' = [ToolOp("write_file") EXCEPT !.raised = TRUE]
               /\ pending' = pending
          ELSE /\ last' = [ToolOp("write_file") EXCEPT
                               !.calls = <<Call("write", validated.path)>>, !.res = done.res]
               /\ pending' = Queue("state", done.res)
    /\ pc' = "called"
    /\ ops' = ops + 1
    /\ UNCHANGED <<files, store, disk, remote, routes, inp>>

\* sync_edit_file
EditFileTool(old, new, all) ==
    /\ pc = "tool"
    /\ LET validated == _validate_path(inp)
           done == StateEdit(Now, validated.path, old, new, all, ops + 1)
       IN IF ~validated.ok
          THEN /\ last' = [ToolOp("edit_file") EXCEPT !.raised = TRUE]
               /\ pending' = pending
          ELSE /\ last' = [ToolOp("edit_file") EXCEPT
                               !.calls = <<Call("edit", validated.path)>>, !.res = done.res]
               /\ pending' = Queue("state", done.res)
    /\ pc' = "called"
    /\ ops' = ops + 1
    /\ UNCHANGED <<files, store, disk, remote, routes, inp>>

\* sync_glob: glob_info receives the path argument as it came
GlobTool ==
    /\ pc = "tool"
    /\ last' = [ToolOp("glob") EXCEPT !.calls = <<Call("glob_info", inp)>>]
    /\ pc' = "called"
    /\ UNCHANGED <<files, pending, store, disk, remote, routes, ops, inp>>

\* sync_grep: grep_raw receives the path argument as it came
GrepTool ==
    /\ pc = "tool"
    /\ last' = [ToolOp("grep") EXCEPT !.calls = <<Call("grep_raw", inp)>>]
    /\ pc' = "called"
    /\ UNCHANGED <<files, pending, store, disk, remote, routes, ops, inp>>

\* the runtime applies the Command update of a tool through the reducer
ApplyCommand ==
    /\ pc = "called" /\ pending # <<>>
    /\ files' = _file_data_reducer(files, Head(pending))
    /\ pending' = Tail(pending)
    /\ UNCHANGED <<store, disk, remote, routes, ops, last, inp, pc>>

NextTools ==
    \/ LsTool
    \/ \E offset \in Offsets, limit \in Limits : ReadFileTool(offset, limit)
    \/ \E c \in ToolContents : WriteFileTool(c)
    \/ \E old \in OldStrings, new \in NewStrings, all \in BOOLEAN : EditFileTool(old, new, all)
    \/ GlobTool
    \/ GrepTool
    \/ ApplyCommand

SpecTools == InitTools /\ [][NextTools]_vars

UnsafePath(p) == Contains(p, <<".", ".">>) \/ StartsWith(p, <<"~">>) \/ DrivePrefix(p)

\* C8: in every path-taking tool (ls, read_file, write_file, edit_file, glob,
\* grep) the path is validated and normalized before the backend is called:
\* no backend method is invoked with a path that contains '..', starts with
\* '~' or has a drive-letter prefix, and a rejected path causes no backend call.
C8_ToolsValidateBeforeBackend ==
    pc = "called"
    => /\ \A i \in 1..Len(last.calls) :
             /\ ~UnsafePath(last.calls[i][2])
             /\ _validate_path(inp).ok
             /\ last.calls[i][2] = _validate_path(inp).path
       /\ ~_validate_path(inp).ok => last.calls = <<>>

\* ------------------------------------------------ upload_files / download_files
\* a byte that is not valid UTF-8; bytes are sequences of characters and of it
BadByte == "0xff"

Decodable(bytes) == \A i \in 1..Len(bytes) : bytes[i] # BadByte

\* FileDownloadResponse / FileUploadResponse: error "none" is None, and
\* has_content FALSE is content None
Response(path, has_content, content, error) ==
    [path |-> path, has_content |-> has_content, content |-> content, error |-> error]

\* what a batch call gives: it raised, or it returned responses
Batch(raised, responses, w) == [raised |-> raised, responses |-> responses, world |-> w]

\* StateBackend.upload_files raises NotImplementedError
StateUpload(w, items) == Batch(TRUE, <<>>, w)

StateDownload(w, paths) ==
    Batch(FALSE,
          [i \in 1..Len(paths) |->
              IF paths[i] \notin DOMAIN w.files THEN Response(paths[i], FALSE, <<>>, "file_not_found")
              ELSE Response(paths[i], TRUE, file_data_to_string(w.files[paths[i]]), "none")],
          w)

\* StoreBackend.upload_files: content.decode("utf-8") raises on bytes that are
\* not UTF-8, after the items before it have been put
RECURSIVE StoreUploadLoop(_, _, _, _)
StoreUploadLoop(w, items, responses, now) ==
    IF items = <<>> THEN Batch(FALSE, responses, w)
    ELSE LET path == Head(items)[1]
             content == Head(items)[2]
         IN IF ~Decodable(content) THEN Batch(TRUE, <<>>, w)
            ELSE StoreUploadLoop([w EXCEPT !.store = Put(w.store, path, create_file_data(content, now))],
                                 Tail(items), Append(responses, Response(path, FALSE, <<>>, "none")),
                                 now)

StoreUpload(w, items, now) == StoreUploadLoop(w, items, <<>>, now)

StoreDownload(w, paths) ==
    Batch(FALSE,
          [i \in 1..Len(paths) |->
              IF paths[i] \notin DOMAIN w.store THEN Response(paths[i], FALSE, <<>>, "file_not_found")
              ELSE Response(paths[i], TRUE, file_data_to_string(w.store[paths[i]]), "none")],
          w)

\* FilesystemBackend.upload_files writes the bytes as they are, over any file
RECURSIVE FilesystemUploadLoop(_, _, _)
FilesystemUploadLoop(w, items, responses) ==
    IF items = <<>> THEN Batch(FALSE, responses, w)
    ELSE FilesystemUploadLoop([w EXCEPT !.disk = Put(w.disk, Head(items)[1], Head(items)[2])],
                              Tail(items),
                              Append(responses, Response(Head(items)[1], FALSE, <<>>, "none")))

FilesystemUpload(w, items) == FilesystemUploadLoop(w, items, <<>>)

FilesystemDownload(w, paths) ==
    Batch(FALSE,
          [i \in 1..Len(paths) |->
              IF paths[i] \notin DOMAIN w.disk THEN Response(paths[i], FALSE, <<>>, "file_not_found")
              ELSE Response(paths[i], TRUE, w.disk[paths[i]], "none")],
          w)

BatchBackends == {"state", "store", "disk"}

BackendUpload(b, w, items, now) ==
    CASE b = "state" -> StateUpload(w, items)
      [] b = "store" -> StoreUpload(w, items, now)
      [] OTHER -> FilesystemUpload(w, items)

BackendDownload(b, w, paths) ==
    CASE b = "state" -> StateDownload(w, paths)
      [] b = "store" -> StoreDownload(w, paths)
      [] OTHER -> FilesystemDownload(w, paths)

\* the keys of backend_batches, a dict: the resolved backends in the order of
\* their first input
RECURSIVE BatchOrder(_, _, _)
BatchOrder(rs, paths, seen) ==
    IF paths = <<>> THEN seen
    ELSE LET b == _get_backend_and_key(rs, Head(paths)).backend
         IN BatchOrder(rs, Tail(paths),
                       IF \E i \in 1..Len(seen) : seen[i] = b THEN seen ELSE Append(seen, b))

\* the input positions of one backend, in input order
RECURSIVE Indices(_, _, _, _)
Indices(rs, paths, b, i) ==
    IF i > Len(paths) THEN <<>>
    ELSE (IF _get_backend_and_key(rs, paths[i]).backend = b THEN <<i>> ELSE <<>>)
         \o Indices(rs, paths, b, i + 1)

Unfilled == Response(NoPath, FALSE, <<>>, "unfilled")

\* results[orig_idx] = response i of the batch, under the original path
Scatter(results, indices, batch_responses, paths, keep_content) ==
    [k \in 1..Len(results) |->
        IF \E i \in 1..Len(indices) : indices[i] = k
        THEN LET i == CHOOSE j \in 1..Len(indices) : indices[j] = k
             IN IF i <= Len(batch_responses)
                THEN Response(paths[k],
                              keep_content /\ batch_responses[i].has_content,
                              IF keep_content THEN batch_responses[i].content ELSE <<>>,
                              batch_responses[i].error)
                ELSE Response(paths[k], FALSE, <<>>, "none")
        ELSE results[k]]

\* CompositeBackend.download_files: one call per resolved backend
RECURSIVE CompositeDownloadLoop(_, _, _, _, _)
CompositeDownloadLoop(rs, w, paths, order, results) ==
    IF order = <<>> THEN Batch(FALSE, results, w)
    ELSE LET indices == Indices(rs, paths, Head(order), 1)
             stripped == [i \in 1..Len(indices) |-> _get_backend_and_key(rs, paths[indices[i]]).key]
             got == BackendDownload(Head(order), w, stripped)
         IN IF got.raised THEN Batch(TRUE, <<>>, got.world)
            ELSE CompositeDownloadLoop(rs, got.world, paths, Tail(order),
                                       Scatter(results, indices, got.responses, paths, TRUE))

CompositeDownload(rs, w, paths) ==
    CompositeDownloadLoop(rs, w, paths, BatchOrder(rs, paths, <<>>),
                          [k \in 1..Len(paths) |-> Unfilled])

\* CompositeBackend.upload_files: one call per resolved backend
RECURSIVE CompositeUploadLoop(_, _, _, _, _, _)
CompositeUploadLoop(rs, w, items, order, results, now) ==
    IF order = <<>> THEN Batch(FALSE, results, w)
    ELSE LET paths == [k \in 1..Len(items) |-> items[k][1]]
             indices == Indices(rs, paths, Head(order), 1)
             batch_files == [i \in 1..Len(indices) |->
                                <<_get_backend_and_key(rs, paths[indices[i]]).key,
                                  items[indices[i]][2]>>]
             got == BackendUpload(Head(order), w, batch_files, now)
         IN IF got.raised THEN Batch(TRUE, <<>>, got.world)
            ELSE CompositeUploadLoop(rs, got.world, items, Tail(order),
                                     Scatter(results, indices, got.responses, paths, FALSE), now)

CompositeUpload(rs, w, items, now) ==
    CompositeUploadLoop(rs, w, items,
                        BatchOrder(rs, [k \in 1..Len(items) |-> items[k][1]], <<>>),
                        [k \in 1..Len(items) |-> Unfilled], now)

\* ------------------------------------------------- routing specification
MaxRoutes == 2

PrefixA == <<"/", "a", "/">>

PrefixAB == <<"/", "a", "/", "b", "/">>

PrefixAb == <<"/", "a", "b">>

Prefixes == {PrefixA, PrefixAB, PrefixAb}

SlashFile == <<"/", "f", "i", "l", "e">>

AFile == <<"/", "a">> \o SlashFile

ABFile == <<"/", "a", "/", "b">> \o SlashFile

AbFile == <<"/", "a", "b">> \o SlashFile

\* the route tables: a dict has each prefix once, in insertion order
RouteTables ==
    {rs \in SeqsUpTo(Prefixes \X BatchBackends, MaxRoutes) :
        \A i, j \in 1..Len(rs) : i # j => rs[i][1] # rs[j][1]}

ResolveKeys == {SlashFile, AFile, ABFile, AbFile, PrefixA, <<"/", "a">>}

BatchPaths == {SlashFile, AFile, ABFile}

\* the items of an upload: text at every path, and bytes that are not UTF-8
UploadItems ==
    {<<SlashFile, <<"a">>>>, <<AFile, <<"a">>>>, <<ABFile, <<"a">>>>, <<AFile, <<BadByte>>>>}

PathBatches == SeqsUpTo(BatchPaths, MaxBatch)

ItemBatches == SeqsUpTo(UploadItems, MaxBatch)

\* every backend holds one file "/file", whose text names the backend
InitRoute ==
    /\ files = (SlashFile :> create_file_data(<<"s">>, 0))
    /\ pending = <<>>
    /\ store = (SlashFile :> create_file_data(<<"t">>, 0))
    /\ disk = (SlashFile :> <<"d">>)
    /\ remote = EmptyMap
    /\ routes \in RouteTables
    /\ ops = 0
    /\ last = NoOp
    /\ inp = <<>>
    /\ pc = "route"

RouteOp(op, via, input, got) ==
    [op |-> op, via |-> via, input |-> input, raised |-> got.raised,
     responses |-> got.responses]

\* CompositeBackend._get_backend_and_key(key)
Resolve(key) ==
    /\ pc = "route"
    /\ last' = [op |-> "resolve", key |-> key, resolved |-> _get_backend_and_key(routes, key)]
    /\ pc' = "routed"
    /\ ops' = ops + 1
    /\ UNCHANGED <<files, pending, store, disk, remote, routes, inp>>

\* backend.download_files(paths) on one backend
DownloadFiles(b, paths) ==
    /\ pc = "route"
    /\ LET got == BackendDownload(b, Now, paths)
       IN /\ SetWorld(got.world)
          /\ last' = RouteOp("download", b, paths, got)
    /\ pc' = "routed"
    /\ ops' = ops + 1
    /\ UNCHANGED <<pending, routes, inp>>

\* backend.upload_files(files) on one backend
UploadFiles(b, items) ==
    /\ pc = "route"
    /\ LET got == BackendUpload(b, Now, items, ops + 1)
       IN /\ SetWorld(got.world)
          /\ last' = RouteOp("upload", b, items, got)
    /\ pc' = "routed"
    /\ ops' = ops + 1
    /\ UNCHANGED <<pending, routes, inp>>

\* CompositeBackend.download_files(paths)
RouterDownloadFiles(paths) ==
    /\ pc = "route"
    /\ LET got == CompositeDownload(routes, Now, paths)
       IN /\ SetWorld(got.world)
          /\ last' = RouteOp("download", "router", paths, got)
    /\ pc' = "routed"
    /\ ops' = ops + 1
    /\ UNCHANGED <<pending, routes, inp>>

\* CompositeBackend.upload_files(files)
RouterUploadFiles(items) ==
    /\ pc = "route"
    /\ LET got == CompositeUpload(routes, Now, items, ops + 1)
       IN /\ SetWorld(got.world)
          /\ last' = RouteOp("upload", "router", items, got)
    /\ pc' = "routed"
    /\ ops' = ops + 1
    /\ UNCHANGED <<pending, routes, inp>>

NextRoute ==
    \/ \E key \in ResolveKeys : Resolve(key)
    \/ \E b \in BatchBackends, paths \in PathBatches : DownloadFiles(b, paths)
    \/ \E b \in BatchBackends, items \in ItemBatches : UploadFiles(b, items)
    \/ \E paths \in PathBatches : RouterDownloadFiles(paths)
    \/ \E items \in ItemBatches : RouterUploadFiles(items)

SpecRoute == InitRoute /\ [][NextRoute]_vars

\* the routes whose prefix the key starts with
Matching(key) == {i \in 1..Len(routes) : StartsWith(key, routes[i][1])}

Longest(key) ==
    CHOOSE i \in Matching(key) : \A j \in Matching(key) : Len(routes[j][1]) <= Len(routes[i][1])

HasRoute(prefix, b) == \E i \in 1..Len(routes) : routes[i] = <<prefix, b>>

\* C5: the router resolves a path to the backend of the longest route prefix
\* the path starts with, or to the default backend when no prefix matches; the
\* path handed to a route's backend is the path without the prefix, behind a
\* "/". With routes "/a/" and "/a/b/", "/a/b/file" goes to the backend of
\* "/a/b/" as "/file".
C5_LongestPrefixResolution ==
    (pc = "routed" /\ last.op = "resolve") =>
        /\ IF Matching(last.key) = {}
           THEN last.resolved = Resolved(DefaultBackend, last.key)
           ELSE LET route == routes[Longest(last.key)]
                IN last.resolved =
                       Resolved(route[2], <<"/">> \o Drop(last.key, Len(route[1])))
        /\ \A b1, b2 \in BatchBackends :
              (last.key = ABFile /\ HasRoute(PrefixA, b1) /\ HasRoute(PrefixAB, b2))
                  => last.resolved = Resolved(b2, SlashFile)

C5_Witness ==
    /\ pc = "routed"
    /\ last.op = "resolve"
    /\ last.key = ABFile
    /\ routes = << <<PrefixA, "store">>, <<PrefixAB, "disk">> >>
    /\ last.resolved = Resolved("disk", SlashFile)

BatchPathOf(i) == IF last.op = "upload" THEN last.input[i][1] ELSE last.input[i]

\* what the backend an input resolves to gives for that input alone
Alone(i) ==
    LET r == _get_backend_and_key(routes, BatchPathOf(i))
    IN IF last.op = "upload"
       THEN BackendUpload(r.backend, Now, << <<r.key, last.input[i][2]>> >>, ops)
       ELSE BackendDownload(r.backend, Now, <<r.key>>)

\* C6: a batch download or upload through the router returns one result per
\* input, in input order, each under the path the caller gave and with the
\* content or error the resolved backend has for that input.
C6_RouterBatchKeepsOrderAndPaths ==
    (pc = "routed" /\ last.op \in {"download", "upload"} /\ last.via = "router") =>
        /\ ~last.raised
        /\ Len(last.responses) = Len(last.input)
        /\ \A i \in 1..Len(last.input) :
              /\ last.responses[i].path = BatchPathOf(i)
              /\ ~Alone(i).raised
              /\ last.responses[i].error = Alone(i).responses[1].error
              /\ last.responses[i].has_content = Alone(i).responses[1].has_content
              /\ last.responses[i].content = Alone(i).responses[1].content

\* the download half of C6
C6_RouterDownload ==
    (pc = "routed" /\ last.op = "download" /\ last.via = "router") =>
        C6_RouterBatchKeepsOrderAndPaths

\* the same call on input i alone
Single(i) ==
    IF last.via = "router"
    THEN (IF last.op = "upload" THEN CompositeUpload(routes, Now, <<last.input[i]>>, ops)
          ELSE CompositeDownload(routes, Now, <<last.input[i]>>))
    ELSE (IF last.op = "upload" THEN BackendUpload(last.via, Now, <<last.input[i]>>, ops)
          ELSE BackendDownload(last.via, Now, <<last.input[i]>>))

\* C7: a batch upload or download, on a backend or through the router, never
\* raises: it returns one result per input, and an input that fails has an
\* error code in its own slot while the other inputs are processed.
C7_BatchPartialSuccess ==
    (pc = "routed" /\ last.op \in {"download", "upload"}) =>
        /\ ~last.raised
        /\ Len(last.responses) = Len(last.input)
        /\ \A i \in 1..Len(last.input) :
              /\ ~Single(i).raised
              /\ last.responses[i] = Single(i).responses[1]

\* the download half of C7
C7_DownloadPartialSuccess ==
    (pc = "routed" /\ last.op = "download") => C7_BatchPartialSuccess

\* ------------------------------------------------ eviction of large results
MaxTokenLimit == 2

\* tool_token_limit_before_evict = None
NoLimit == -1

TokenLimits == {NoLimit} \cup 0..MaxTokenLimit

CHARS_PER_TOKEN == 4

SAMPLE_LINES == 10

SAMPLE_LINE_LENGTH == 1000

\* "/large_tool_results/"
LargeToolResults ==
    <<"/", "l", "a", "r", "g", "e", "_", "t", "o", "o", "l", "_",
      "r", "e", "s", "u", "l", "t", "s", "/">>

\* tool_call_id.replace(".", "_").replace("/", "_").replace("\\", "_")
sanitize_tool_call_id(tool_call_id) ==
    ReplaceChar(ReplaceChar(ReplaceChar(tool_call_id, ".", "_"), "/", "_"), BSL, "_")

\* the content of a message: the text a tool returned, or the text that
\* TOO_LARGE_TOOL_MSG.format(tool_call_id, file_path, content_sample) gives
TextContent(text) == [kind |-> "text", text |-> text, file_path |-> NoPath, sample |-> <<>>]

TooLargeToolMsg(tool_call_id, file_path, content_sample) ==
    [kind |-> "pointer", text |-> tool_call_id, file_path |-> file_path,
     sample |-> content_sample]

\* a ToolMessage; a message of another type has type "ai"
ToolMessage(content, tool_call_id) ==
    [type |-> "tool", content |-> content, tool_call_id |-> tool_call_id]

\* a tool result: one ToolMessage (shape "message") or a Command, whose update
\* may be None and otherwise has messages, files and other keys, and which has
\* the fields goto, graph and resume next to update
MessageResult(message) ==
    [shape |-> "message", has_update |-> FALSE, messages |-> <<message>>,
     files |-> EmptyMap, other |-> "none", goto |-> "none"]

Command(has_update, messages, files_update, other, goto) ==
    [shape |-> "command", has_update |-> has_update, messages |-> messages,
     files |-> files_update, other |-> other, goto |-> goto]

\* (processed_message, files_update) and the effect of the write
Processed(message, has_update, files_update, w) ==
    [message |-> message, has_update |-> has_update, files_update |-> files_update,
     world |-> w]

\* [line[:1000] for line in content_str.splitlines()[:10]]
SampleLines(content_str) ==
    LET lines == PySplitLines(content_str)
    IN [i \in 1..Min(Len(lines), SAMPLE_LINES) |-> Take(lines[i], Min(Len(lines[i]), SAMPLE_LINE_LENGTH))]

\* the eviction that does not look at the error of the write
_process_large_message_ignoring_error(limit, message, b, w, now) ==
    IF limit = NoLimit \/ limit = 0 THEN Processed(message, FALSE, EmptyMap, w)
    ELSE LET content_str == message.content.text
         IN IF Len(content_str) <= CHARS_PER_TOKEN * limit
            THEN Processed(message, FALSE, EmptyMap, w)
            ELSE LET file_path == LargeToolResults \o sanitize_tool_call_id(message.tool_call_id)
                     done == BackendWrite(b, w, file_path, content_str, now)
                 IN Processed(ToolMessage(TooLargeToolMsg(message.tool_call_id, file_path,
                                     format_content_with_line_numbers(SampleLines(content_str), 1)),
                                          message.tool_call_id),
                              done.res.has_update, done.res.files_update, done.world)

\* FilesystemMiddleware._process_large_message(message, resolved_backend)
_process_large_message(limit, message, b, w, now) ==
    IF limit = NoLimit \/ limit = 0 THEN Processed(message, FALSE, EmptyMap, w)
    ELSE LET content_str == message.content.text
         IN IF Len(content_str) <= CHARS_PER_TOKEN * limit
            THEN Processed(message, FALSE, EmptyMap, w)
            ELSE LET file_path == LargeToolResults \o sanitize_tool_call_id(message.tool_call_id)
                     done == BackendWrite(b, w, file_path, content_str, now)
                 IN IF done.res.error # "none" THEN Processed(message, FALSE, EmptyMap, w)
                    ELSE Processed(ToolMessage(TooLargeToolMsg(message.tool_call_id, file_path,
                                        format_content_with_line_numbers(SampleLines(content_str), 1)),
                                               message.tool_call_id),
                                   done.res.has_update, done.res.files_update, done.world)

\* a tool result and the effect of the writes that produced it
Intercepted(result, w) == [result |-> result, world |-> w]

\* the loop over command_messages: accumulated_file_updates.update(files_update)
RECURSIVE ProcessMessages(_, _, _, _, _, _, _)
ProcessMessages(limit, command_messages, b, w, now, processed_messages, accumulated) ==
    IF command_messages = <<>>
    THEN [messages |-> processed_messages, files |-> accumulated, world |-> w]
    ELSE LET message == Head(command_messages)
         IN IF message.type # "tool"
            THEN ProcessMessages(limit, Tail(command_messages), b, w, now,
                                 Append(processed_messages, message), accumulated)
            ELSE LET p == _process_large_message(limit, message, b, w, now)
                 IN ProcessMessages(limit, Tail(command_messages), b, p.world, now,
                                    Append(processed_messages, p.message),
                                    IF p.has_update THEN p.files_update @@ accumulated
                                    ELSE accumulated)

\* FilesystemMiddleware._intercept_large_tool_result(tool_result, runtime); the
\* Command it builds is given an update and no other field
_intercept_large_tool_result(limit, tool_result, b, w, now) ==
    IF tool_result.shape = "message"
    THEN LET p == _process_large_message(limit, tool_result.messages[1], b, w, now)
         IN IF p.has_update
            THEN Intercepted(Command(TRUE, <<p.message>>, p.files_update, "none", "none"), p.world)
            ELSE Intercepted(MessageResult(p.message), p.world)
    ELSE IF ~tool_result.has_update THEN Intercepted(tool_result, w)
    ELSE LET done == ProcessMessages(limit, tool_result.messages, b, w, now, <<>>,
                                     tool_result.files)
         IN Intercepted(Command(TRUE, done.messages, done.files, tool_result.other, "none"),
                        done.world)

\* the tools of TOOL_GENERATORS
StorageTools == {"ls", "read_file", "write_file", "edit_file", "glob", "grep", "execute"}

\* FilesystemMiddleware.wrap_tool_call(request, handler), tool_result being
\* what handler(request) returns
wrap_tool_call(limit, tool_name, tool_result, b, w, now) ==
    IF limit = NoLimit \/ tool_name \in StorageTools THEN Intercepted(tool_result, w)
    ELSE _intercept_large_tool_result(limit, tool_result, b, w, now)

\* ------------------------------------------------- eviction specification
\* a text of n characters: "aaa..." or "a\na\n..."
Repeated(n) == [i \in 1..n |-> "a"]

Alternating(n) == [i \in 1..n |-> IF i % 2 = 1 THEN "a" ELSE NL]

ResultLengths == 0..(CHARS_PER_TOKEN * MaxTokenLimit + 1)

\* the lengths at a threshold and one above it
BoundaryLengths ==
    {0} \cup {CHARS_PER_TOKEN * l + d : l \in 1..MaxTokenLimit, d \in {0, 1}}

ResultTexts == {Repeated(n) : n \in ResultLengths} \cup {Alternating(n) : n \in ResultLengths}

CallId1 == <<"c", ".", "1">>

CallId2 == <<"d">>

ReservedPath1 == LargeToolResults \o <<"c", "_", "1">>

AiMessage == [type |-> "ai", content |-> TextContent(<<"a">>), tool_call_id |-> NoPath]

CommandMessages(tool_call_id) ==
    {AiMessage} \cup {ToolMessage(TextContent(Repeated(n)), tool_call_id) : n \in BoundaryLengths}

CommandMessageLists ==
    {<<>>} \cup {<<m>> : m \in CommandMessages(CallId1)}
           \cup {<<m1, m2>> : m1 \in CommandMessages(CallId1), m2 \in CommandMessages(CallId2)}

FilesUpdates == {EmptyMap, (KeyX :> create_file_data(<<"a">>, 0))}

ToolResults ==
    {MessageResult(ToolMessage(TextContent(t), CallId1)) : t \in ResultTexts}
    \cup {Command(FALSE, <<>>, EmptyMap, "none", goto) : goto \in {"none", "agent"}}
    \cup {Command(TRUE, ms, fu, other, goto) :
            ms \in CommandMessageLists, fu \in FilesUpdates,
            other \in {"none", "todos"}, goto \in {"none", "agent"}}

ToolNames == {"grep", "web_search"}

EvictBackends == {"state", "store", "disk"}

\* a backend in which the reserved path of CallId1 is taken, or an empty one
Occupied(taken, value) == IF taken THEN (ReservedPath1 :> value) ELSE EmptyMap

InitEvict ==
    /\ \E taken \in BOOLEAN :
          /\ files = Occupied(taken, create_file_data(<<"a">>, 0))
          /\ store = Occupied(taken, create_file_data(<<"a">>, 0))
          /\ disk = Occupied(taken, <<"a">>)
    /\ pending = <<>>
    /\ remote = EmptyMap
    /\ routes = <<>>
    /\ ops = 0
    /\ last = NoOp
    /\ inp \in [limit : TokenLimits, backend : EvictBackends, tool_name : ToolNames,
                tool_result : ToolResults]
    /\ pc = "evict"

\* wrap_tool_call around a handler that returns inp.tool_result
WrapToolCall ==
    /\ pc = "evict"
    /\ LET got == wrap_tool_call(inp.limit, inp.tool_name, inp.tool_result, inp.backend,
                                 Now, ops + 1)
       IN /\ SetWorld(got.world)
          /\ last' = [op |-> "wrap_tool_call", result |-> got.result]
    /\ pc' = "evicted"
    /\ ops' = ops + 1
    /\ UNCHANGED <<pending, routes, inp>>

\* the files of the returned Command go through the reducer of the state
ApplyResult ==
    /\ pc = "evicted"
    /\ last.result.shape = "command" /\ last.result.has_update
    /\ files' = _file_data_reducer(files, last.result.files)
    /\ pc' = "applied"
    /\ UNCHANGED <<pending, store, disk, remote, routes, ops, last, inp>>

NextEvict == WrapToolCall \/ ApplyResult

SpecEvict == InitEvict /\ [][NextEvict]_vars

\* a step of wrap_tool_call around a tool that is not a storage tool, under a
\* configured limit
Intercepting ==
    /\ pc = "evict" /\ pc' = "evicted"
    /\ inp.limit # NoLimit
    /\ inp.tool_name \notin StorageTools

\* the text under the reserved path after the step: in the returned update
\* for the ephemeral backend, in the backend for the others
EvictedText(path) ==
    IF inp.backend = "state"
    THEN (IF last'.result.shape = "command" /\ path \in DOMAIN last'.result.files
          THEN file_data_to_string(last'.result.files[path]) ELSE <<"?">>)
    ELSE (IF Exists(inp.backend, Now', path) THEN StoredText(inp.backend, Now', path)
          ELSE <<"?">>)

\* the result is the one the tool returned and nothing was stored
PassedThrough == last'.result = inp.tool_result /\ Now' = Now

\* the one message of the result is the pointer to the reserved path, under
\* which the whole text is stored
EvictedTo(path, text) ==
    /\ Len(last'.result.messages) = 1
    /\ last'.result.messages[1].type = "tool"
    /\ last'.result.messages[1].tool_call_id = CallId1
    /\ last'.result.messages[1].content.kind = "pointer"
    /\ last'.result.messages[1].content.file_path = path
    /\ EvictedText(path) = text

\* C11: under every configured token limit L a result of a tool that is not a
\* storage tool is evicted if and only if its text is longer than 4*L
\* characters: a longer text is written in full to
\* /large_tool_results/<sanitized call id> (the path being free) and replaced
\* by the pointer message; a text of at most 4*L characters is returned as it
\* is and nothing is written.
C11_EvictsIffLongerThanFourL ==
    [][(Intercepting /\ inp.tool_result.shape = "message"
          /\ ~Exists(inp.backend, Now, ReservedPath1))
        => LET text == inp.tool_result.messages[1].content.text
           IN IF Len(text) > 4 * inp.limit
              THEN EvictedTo(ReservedPath1, text)
              ELSE PassedThrough]_vars

\* C11 under the limits that are at least 1
C11_EvictsAtPositiveLimit ==
    [][(Intercepting /\ inp.limit > 0 /\ inp.tool_result.shape = "message"
          /\ ~Exists(inp.backend, Now, ReservedPath1))
        => LET text == inp.tool_result.messages[1].content.text
           IN IF Len(text) > 4 * inp.limit
              THEN EvictedTo(ReservedPath1, text)
              ELSE PassedThrough]_vars

\* the first message of the tool result is a tool message of more than 4*L
\* characters
FirstIsOversized ==
    /\ inp.tool_result.shape = "message" \/ inp.tool_result.has_update
    /\ inp.tool_result.messages # <<>>
    /\ inp.tool_result.messages[1].type = "tool"
    /\ Len(inp.tool_result.messages[1].content.text) > 4 * inp.limit

\* C12: when a result exceeds the threshold and the write to the reserved
\* path fails (the path is taken), the oversized message is returned as it
\* was, no update for the reserved path is added, and the file under the
\* reserved path stays as it was; a single-message result is returned
\* unchanged with no effect on any backend.
C12_FailedEvictionPassesThrough ==
    [][(Intercepting /\ FirstIsOversized /\ Exists(inp.backend, Now, ReservedPath1))
        => /\ last'.result.messages[1] = inp.tool_result.messages[1]
           /\ (ReservedPath1 \in DOMAIN last'.result.files
                  => ReservedPath1 \in DOMAIN inp.tool_result.files)
           /\ StoredText(inp.backend, Now', ReservedPath1)
                  = StoredText(inp.backend, Now, ReservedPath1)
           /\ inp.tool_result.shape = "message" => PassedThrough]_vars

\* an oversized single message came back as it was because the path was taken
C12_Witness ==
    /\ pc = "evicted"
    /\ inp.limit > 0 /\ inp.tool_name \notin StorageTools
    /\ inp.tool_result.shape = "message"
    /\ Len(inp.tool_result.messages[1].content.text) > 4 * inp.limit
    /\ Exists(inp.backend, Now, ReservedPath1)
    /\ StoredText(inp.backend, Now, ReservedPath1) = <<"a">>
    /\ last.result = inp.tool_result

\* no tool message of the tool result is longer than 4*L characters
NothingOversized ==
    \A i \in 1..Len(inp.tool_result.messages) :
        inp.tool_result.messages[i].type = "tool"
            => Len(inp.tool_result.messages[i].content.text) <= 4 * inp.limit

\* C13: when no tool message of a tool result exceeds the threshold, the
\* result is returned unchanged, a single message and a command alike: the
\* same messages in the same order, the same file updates, every other field
\* of the command as it was, and nothing stored.
C13_SmallResultsUnchanged ==
    [][(Intercepting /\ NothingOversized) => PassedThrough]_vars

\* C13 for the results that have no goto
C13_SmallResultsWithoutGoto ==
    [][(Intercepting /\ NothingOversized /\ inp.tool_result.goto = "none")
        => PassedThrough]_vars

\* ------------------------------------------------------------- ls_info
\* the characters of the model in the order of their code points
CodePoints ==
    <<NL, " ", ".", "/", "0", "1", ":", "?", "A", "Z", "[", BSL, "_",
      "a", "b", "c", "d", "e", "f", "g", "h", "i", "j", "k", "l", "m",
      "n", "o", "p", "q", "r", "s", "t", "u", "v", "w", "x", "y", "z", "~">>

Ord(ch) == CHOOSE i \in 1..Len(CodePoints) : CodePoints[i] = ch

\* a < b for str
StrLess(a, b) ==
    \E k \in 1..(Len(b)) :
        /\ k <= Len(a) + 1
        /\ \A i \in 1..(k - 1) : a[i] = b[i]
        /\ (k = Len(a) + 1 \/ Ord(a[k]) < Ord(b[k]))

\* str.rstrip("/")
RECURSIVE PyRStrip(_, _)
PyRStrip(s, ch) ==
    IF s # <<>> /\ s[Len(s)] = ch THEN PyRStrip(SubSeq(s, 1, Len(s) - 1), ch) ELSE s

\* a FileInfo; modified_at NoTime is ""
NoTime == -1

FileInfo(path, is_dir, size, modified_at) ==
    [path |-> path, is_dir |-> is_dir, size |-> size, modified_at |-> modified_at]

\* list.sort(key=lambda x: x.get("path", "")): stable, ascending by path
RECURSIVE InsertByPath(_, _)
InsertByPath(sorted, e) ==
    IF sorted = <<>> THEN <<e>>
    ELSE IF StrLess(e.path, Head(sorted).path) THEN <<e>> \o sorted
    ELSE <<Head(sorted)>> \o InsertByPath(Tail(sorted), e)

RECURSIVE SortByPath(_)
SortByPath(infos) ==
    IF infos = <<>> THEN <<>>
    ELSE InsertByPath(SortByPath(SubSeq(infos, 1, Len(infos) - 1)), infos[Len(infos)])

\* a set of entries with different paths as the list sorted by path
RECURSIVE SortedInfos(_)
SortedInfos(infos) ==
    IF infos = {} THEN <<>>
    ELSE LET first == CHOOSE e \in infos : \A o \in infos : ~StrLess(o.path, e.path)
         IN <<first>> \o SortedInfos(infos \ {first})

\* the listing of a map from path to file: the files directly under path and
\* the immediate subdirectories that hold files
\* size and modified_at are the maps from the path of a file to its size and
\* to its modified_at
LsOver(path, size, modified_at) ==
    LET normalized_path == IF EndsWith(path, <<"/">>) THEN path ELSE path \o <<"/">>
        under == {k \in DOMAIN size : StartsWith(k, normalized_path)}
        relative(k) == Drop(k, Len(normalized_path))
        direct == {k \in under : ~Contains(relative(k), <<"/">>)}
        subdirs == {normalized_path \o PySplit(relative(k), "/")[1] \o <<"/">> :
                       k \in under \ direct}
    IN SortedInfos({FileInfo(k, FALSE, size[k], modified_at[k]) : k \in direct}
                   \cup {FileInfo(d, TRUE, 0, NoTime) : d \in subdirs})

StateLsInfo(w, path) ==
    LsOver(path, [k \in DOMAIN w.files |-> Len(file_data_to_string(w.files[k]))],
           [k \in DOMAIN w.files |-> w.files[k].modified_at])

StoreLsInfo(w, path) ==
    LsOver(path, [k \in DOMAIN w.store |-> Len(file_data_to_string(w.store[k]))],
           [k \in DOMAIN w.store |-> w.store[k].modified_at])

\* FilesystemBackend.ls_info: the directories of the disk are the ones that
\* hold files, and the modification time of a file is not kept
FilesystemLsInfo(w, path) ==
    LsOver(path, [k \in DOMAIN w.disk |-> Len(w.disk[k])], [k \in DOMAIN w.disk |-> NoTime])

\* the directories of a map from path to file: every proper prefix of a path
\* that ends before a "/", the root excepted
DirsOf(keys) ==
    UNION {{Take(k, i - 1) : i \in {j \in 2..Len(k) : k[j] = "/"}} : k \in keys}

\* the path below the directory dir of a path under it
Below(dir, k) == Drop(k, Len(dir) + 1)

IsUnder(dir, k) == StartsWith(k, dir \o <<"/">>)

\* a set of paths as the list in ascending order
RECURSIVE SortedPaths(_)
SortedPaths(paths) ==
    IF paths = {} THEN <<>>
    ELSE LET first == CHOOSE p \in paths : \A o \in paths : ~StrLess(o, p)
         IN <<first>> \o SortedPaths(paths \ {first})

\* BaseSandbox.ls_info(path): os.scandir prints the name of every entry of the
\* directory and nothing when the path is no directory; only the name and
\* is_dir are kept
SandboxLsInfo(w, path) ==
    LET dir == PyRStrip(path, "/")
        dirs == DirsOf(DOMAIN w.remote)
        names == SortedPaths({PySplit(Below(dir, k), "/")[1] :
                                 k \in {f \in DOMAIN w.remote : IsUnder(dir, f)}})
    IN IF ~StartsWith(path, <<"/">>) \/ (dir # <<>> /\ dir \notin dirs) THEN <<>>
       ELSE [i \in 1..Len(names) |->
                FileInfo(names[i], (dir \o <<"/">> \o names[i]) \in dirs, 0, NoTime)]

BackendLsInfo(b, w, path) ==
    CASE b = "state" -> StateLsInfo(w, path)
      [] b = "store" -> StoreLsInfo(w, path)
      [] b = "disk" -> FilesystemLsInfo(w, path)
      [] OTHER -> SandboxLsInfo(w, path)

\* the first route of the sorted routes whose prefix without its trailing
\* slashes starts the path; 0 when there is none
FirstLooseMatch(sorted, path) ==
    IF \E i \in 1..Len(sorted) : StartsWith(path, PyRStrip(sorted[i][1], "/"))
    THEN CHOOSE i \in 1..Len(sorted) :
            /\ StartsWith(path, PyRStrip(sorted[i][1], "/"))
            /\ \A j \in 1..(i - 1) : ~StartsWith(path, PyRStrip(sorted[j][1], "/"))
    ELSE 0

\* fi["path"] = f"{route_prefix[:-1]}{fi['path']}"
RestorePrefix(route_prefix, path) == SubSeq(route_prefix, 1, Len(route_prefix) - 1) \o path

\* f"/{suffix}" if suffix else "/"
SearchPath(route_prefix, path) == <<"/">> \o Drop(path, Len(route_prefix))

\* the listing that leaves the entries of the routes behind the default's
CompositeLsInfo_unsorted(rs, w, path) ==
    LET sorted == sorted_routes(rs)
        i == FirstLooseMatch(sorted, path)
    IN IF i # 0
       THEN LET infos == BackendLsInfo(sorted[i][2], w, SearchPath(sorted[i][1], path))
            IN [k \in 1..Len(infos) |->
                   [infos[k] EXCEPT !.path = RestorePrefix(sorted[i][1], infos[k].path)]]
       ELSE IF path = <<"/">>
       THEN BackendLsInfo(DefaultBackend, w, path)
            \o [k \in 1..Len(sorted) |-> FileInfo(sorted[k][1], TRUE, 0, NoTime)]
       ELSE BackendLsInfo(DefaultBackend, w, path)

\* CompositeBackend.ls_info(path)
CompositeLsInfo(rs, w, path) ==
    LET sorted == sorted_routes(rs)
        i == FirstLooseMatch(sorted, path)
    IN IF i # 0
       THEN LET infos == BackendLsInfo(sorted[i][2], w, SearchPath(sorted[i][1], path))
            IN [k \in 1..Len(infos) |->
                   [infos[k] EXCEPT !.path = RestorePrefix(sorted[i][1], infos[k].path)]]
       ELSE IF path = <<"/">>
       THEN SortByPath(BackendLsInfo(DefaultBackend, w, path)
                       \o [k \in 1..Len(sorted) |-> FileInfo(sorted[k][1], TRUE, 0, NoTime)])
       ELSE BackendLsInfo(DefaultBackend, w, path)

\* ---------------------------------------------------- query specification
RootPath == <<"/">>

MainPy == <<"/", "m", "a", "i", "n", ".", "p", "y">>

SubDirFilePy ==
    <<"/", "s", "u", "b", "/", "d", "i", "r", "/", "f", "i", "l", "e", ".", "p", "y">>

BcFile == <<"/", "b", "c">> \o SlashFile

CFile == <<"/", "c">> \o SlashFile

QueryFiles == {SlashFile, MainPy, SubDirFilePy, BcFile, CFile}

\* a validated path with a ":" in it
ColonFile == <<"/", "a", ":", "b">>

\* every backend holds the same paths with a text of its own
StateText == <<"a">>

StoreText == <<"a", "a">>

DiskText == <<"a", "a", "a">>

RemoteText == <<"a", "a", "a", "a">>

LsPaths ==
    {RootPath, PrefixA, <<"/", "a">>, <<"/", "s", "u", "b">>, <<"/", "s", "u", "b", "/">>,
     SlashFile, <<"/", "n", "o">>}

InitQuery ==
    /\ files \in {EmptyMap, [k \in QueryFiles |-> create_file_data(StateText, 0)]}
    /\ pending = <<>>
    /\ store = [k \in QueryFiles |-> create_file_data(StoreText, 0)]
    /\ disk = [k \in QueryFiles |-> DiskText]
    /\ remote \in {[k \in QueryFiles |-> RemoteText],
                  [k \in QueryFiles \cup {ColonFile} |-> RemoteText]}
    /\ routes \in RouteTables
    /\ ops = 0
    /\ last = NoOp
    /\ inp = <<>>
    /\ pc = "query"

QueryOp(op, via, pattern, path, glob, ripgrep, out) ==
    [op |-> op, via |-> via, pattern |-> pattern, path |-> path, glob |-> glob,
     ripgrep |-> ripgrep, out |-> out]

\* the answer of a query: a list, an error string (kind "error"), or an
\* exception that leaves the call (kind "raised")
Answer(kind, items) == [kind |-> kind, items |-> items]

\* backend.ls_info(path) on one backend
LsInfo(b, path) ==
    /\ pc = "query"
    /\ last' = QueryOp("ls", b, <<>>, path, <<>>, FALSE, Answer("list", BackendLsInfo(b, Now, path)))
    /\ pc' = "answered"
    /\ ops' = ops + 1
    /\ UNCHANGED <<files, pending, store, disk, remote, routes, inp>>

\* CompositeBackend.ls_info(path)
RouterLsInfo(path) ==
    /\ pc = "query"
    /\ last' = QueryOp("ls", "router", <<>>, path, <<>>, FALSE,
                       Answer("list", CompositeLsInfo(routes, Now, path)))
    /\ pc' = "answered"
    /\ ops' = ops + 1
    /\ UNCHANGED <<files, pending, store, disk, remote, routes, inp>>

\* ------------------------------------------------------------ glob, grep
\* one path segment against one pattern segment: "*" stands for any run of
\* characters other than "/", every other character for itself
RECURSIVE SegMatch(_, _)
SegMatch(name, pat) ==
    IF pat = <<>> THEN name = <<>>
    ELSE IF Head(pat) = "*"
         THEN \E k \in 0..Len(name) :
                 /\ \A i \in 1..k : name[i] # "/"
                 /\ SegMatch(Drop(name, k), Tail(pat))
    ELSE name # <<>> /\ Head(name) = Head(pat) /\ SegMatch(Tail(name), Tail(pat))

\* without dotmatch a name that starts with "." is matched only by a pattern
\* that starts with "."
SegMatchTop(name, pat, dotmatch) ==
    /\ (~dotmatch /\ StartsWith(name, <<".">>) => StartsWith(pat, <<".">>))
    /\ SegMatch(name, pat)

\* segments of a path against segments of a pattern; under globstar a pattern
\* segment "**" stands for any number of directories
RECURSIVE PathMatch(_, _, _, _)
PathMatch(names, pats, globstar, dotmatch) ==
    IF pats = <<>> THEN names = <<>>
    ELSE IF globstar /\ Head(pats) = <<"*", "*">>
         THEN \/ PathMatch(names, Tail(pats), globstar, dotmatch)
              \/ /\ names # <<>>
                 /\ (dotmatch \/ ~StartsWith(Head(names), <<".">>))
                 /\ PathMatch(Tail(names), pats, globstar, dotmatch)
    ELSE /\ names # <<>>
         /\ SegMatchTop(Head(names), Head(pats), dotmatch)
         /\ PathMatch(Tail(names), Tail(pats), globstar, dotmatch)

\* wcglob.globmatch(name, pattern, flags=BRACE | GLOBSTAR) and, without
\* globstar, wcglob.globmatch(name, pattern, flags=BRACE)
globmatch(name, pattern, globstar) ==
    PathMatch(PySplit(name, "/"), PySplit(pattern, "/"), globstar, FALSE)

\* str.lstrip("/")
RECURSIVE PyLStrip(_, _)
PyLStrip(s, ch) == IF s # <<>> /\ s[1] = ch THEN PyLStrip(Tail(s), ch) ELSE s

\* Path(fp).name, file_path.split("/")[-1]
BaseName(fp) == PySplit(fp, "/")[Len(PySplit(fp, "/"))]

\* backends/utils.py _validate_path(path): None and "" are "/"; ok FALSE is
\* the ValueError
SearchRoot(path) ==
    LET p == IF path = NoPath THEN <<"/">> ELSE path
        normalized == IF StartsWith(p, <<"/">>) THEN p ELSE <<"/">> \o p
    IN IF StripsToEmpty(p) THEN Rejected
       ELSE Accepted(IF EndsWith(normalized, <<"/">>) THEN normalized
                     ELSE normalized \o <<"/">>)

\* _glob_search_files(files, pattern, path): the matching paths, most recently
\* modified first (files of one time in ascending order of path)
RECURSIVE ByModifiedDesc(_, _)
ByModifiedDesc(paths, modified) ==
    IF paths = {} THEN <<>>
    ELSE LET latest == {p \in paths : \A o \in paths : modified[o] <= modified[p]}
         IN SortedPaths(latest) \o ByModifiedDesc(paths \ latest, modified)

\* modified is the map from the path of a file to its modified_at
_glob_search_files(modified, pattern, path) ==
    LET root == SearchRoot(path)
        relative(k) ==
            LET r == PyLStrip(Drop(k, Len(root.path)), "/")
            IN IF r = <<>> THEN BaseName(k) ELSE r
    IN IF ~root.ok THEN <<>>
       ELSE ByModifiedDesc({k \in DOMAIN modified : /\ StartsWith(k, root.path)
                                                    /\ globmatch(relative(k), pattern, TRUE)},
                           modified)

\* the FileInfo of the files, in the order of the paths given; size and
\* modified_at are maps from the path
InfosOf(paths, size, modified_at) ==
    [k \in 1..Len(paths) |-> FileInfo(paths[k], FALSE, size[paths[k]], modified_at[paths[k]])]

\* StateBackend.glob_info(pattern, path)
StateGlobInfo(w, pattern, path) ==
    LET modified_at == [k \in DOMAIN w.files |-> w.files[k].modified_at]
    IN InfosOf(_glob_search_files(modified_at, pattern, path),
               [k \in DOMAIN w.files |-> Len(file_data_to_string(w.files[k]))], modified_at)

\* StoreBackend.glob_info(pattern, path)
StoreGlobInfo(w, pattern, path) ==
    LET modified_at == [k \in DOMAIN w.store |-> w.store[k].modified_at]
    IN InfosOf(_glob_search_files(modified_at, pattern, path),
               [k \in DOMAIN w.store |-> Len(file_data_to_string(w.store[k]))], modified_at)

\* Path.rglob(pattern): the pattern may match below any directory of the
\* tree, and "*" also matches a name that starts with "."
rglob(relative, pattern) ==
    PathMatch(PySplit(relative, "/"), <<(<<"*", "*">>)>> \o PySplit(pattern, "/"), TRUE, TRUE)

\* FilesystemBackend.glob_info(pattern, path) in virtual mode: the search
\* directory is the root for "/" and _resolve_path(path) otherwise
FilesystemGlobInfo(w, pattern, path) ==
    LET pat == PyLStrip(pattern, "/")
        search_path == PyRStrip(IF StartsWith(path, <<"/">>) THEN path ELSE <<"/">> \o path, "/")
        size == [k \in DOMAIN w.disk |-> Len(w.disk[k])]
        modified_at == [k \in DOMAIN w.disk |-> NoTime]
    IN IF search_path # <<>> /\ search_path \notin DirsOf(DOMAIN w.disk) THEN <<>>
       ELSE IF pat = <<>> THEN <<>>
       ELSE InfosOf(SortedPaths({k \in DOMAIN w.disk :
                                    /\ IsUnder(search_path, k)
                                    /\ rglob(Below(search_path, k), pat)}),
                    size, modified_at)

\* glob.glob(pattern, recursive=True) after os.chdir(path): the names are
\* relative to path, directories match as files do, and the result is sorted
glob_glob(relative, pattern) ==
    PathMatch(PySplit(relative, "/"), PySplit(pattern, "/"), TRUE, FALSE)

\* BaseSandbox.glob_info(pattern, path): _GLOB_COMMAND_TEMPLATE prints nothing
\* when os.chdir fails; only path and is_dir are kept
SandboxGlobInfo(w, pattern, path) ==
    LET dir == PyRStrip(path, "/")
        dirs == DirsOf(DOMAIN w.remote)
        found == {k \in DOMAIN w.remote \cup dirs :
                     IsUnder(dir, k) /\ glob_glob(Below(dir, k), pattern)}
        names == SortedPaths({Below(dir, k) : k \in found})
    IN IF ~StartsWith(path, <<"/">>) \/ (dir # <<>> /\ dir \notin dirs) THEN <<>>
       ELSE [i \in 1..Len(names) |->
                FileInfo(names[i], (dir \o <<"/">> \o names[i]) \in dirs, 0, NoTime)]

BackendGlobInfo(b, w, pattern, path) ==
    CASE b = "state" -> StateGlobInfo(w, pattern, path)
      [] b = "store" -> StoreGlobInfo(w, pattern, path)
      [] b = "disk" -> FilesystemGlobInfo(w, pattern, path)
      [] OTHER -> SandboxGlobInfo(w, pattern, path)

\* ----------------------------------------------------------------- grep
NoGlob == <<>>

\* re.compile(pattern) raises re.error on a "[" that no "]" closes
re_compiles(pattern) ==
    \A i \in 1..Len(pattern) :
        pattern[i] = "[" => \E j \in (i + 1)..Len(pattern) : pattern[j] = "]"

\* regex.search(line) for a pattern of letters; grep -F for any pattern
Search(pattern, line) == Contains(line, pattern)

GrepMatch(path, line, text) == [path |-> path, line |-> line, text |-> text]

\* the matching lines of one file, in the order of the lines
RECURSIVE LineMatches(_, _, _, _)
LineMatches(path, lines, pattern, n) ==
    IF n > Len(lines) THEN <<>>
    ELSE (IF Search(pattern, lines[n]) THEN <<GrepMatch(path, n, lines[n])>> ELSE <<>>)
         \o LineMatches(path, lines, pattern, n + 1)

\* the matching lines of the files, file after file
RECURSIVE FileMatches(_, _, _)
FileMatches(paths, lines, pattern) ==
    IF paths = <<>> THEN <<>>
    ELSE LineMatches(Head(paths), lines[Head(paths)], pattern, 1)
         \o FileMatches(Tail(paths), lines, pattern)

\* the glob filter of grep: the file name against the glob, without globstar
IncludedBy(glob, fp) == glob = NoGlob \/ globmatch(BaseName(fp), glob, FALSE)

\* grep_matches_from_files(files, pattern, path, glob); lines is the map from
\* the path of a file to its lines
grep_matches_from_files(lines, pattern, path, glob) ==
    LET root == SearchRoot(path)
    IN IF ~re_compiles(pattern) THEN Answer("error", <<>>)
       ELSE IF ~root.ok THEN Answer("list", <<>>)
       ELSE Answer("list",
                   FileMatches(SortedPaths({fp \in DOMAIN lines :
                                               /\ StartsWith(fp, root.path)
                                               /\ IncludedBy(glob, fp)}),
                               lines, pattern))

\* StateBackend.grep_raw(pattern, path, glob)
StateGrepRaw(w, pattern, path, glob) ==
    grep_matches_from_files([k \in DOMAIN w.files |-> w.files[k].content], pattern, path, glob)

\* StoreBackend.grep_raw(pattern, path, glob)
StoreGrepRaw(w, pattern, path, glob) ==
    grep_matches_from_files([k \in DOMAIN w.store |-> w.store[k].content], pattern, path, glob)

\* FilesystemBackend.grep_raw(pattern, path, glob) in virtual mode. The base is
\* _resolve_path(path or "."). _ripgrep_search searches the base, a file
\* included; _python_search, taken when rg is not installed, searches the
\* parent directory of a base that is a file
FilesystemGrepRaw(w, pattern, path, glob, ripgrep) ==
    LET p == IF path = NoPath THEN <<"/">> ELSE path
        base_full == PyRStrip(IF StartsWith(p, <<"/">>) THEN p ELSE <<"/">> \o p, "/")
        is_file == base_full \in DOMAIN w.disk
        exists == base_full = <<>> \/ is_file \/ base_full \in DirsOf(DOMAIN w.disk)
        parts == PySplit(base_full, "/")
        parent == PyJoin(SubSeq(parts, 1, Len(parts) - 1), <<"/">>)
        root == IF is_file /\ ~ripgrep THEN parent ELSE base_full
        searched == {fp \in DOMAIN w.disk :
                        /\ fp = root \/ IsUnder(root, fp)
                        /\ IncludedBy(glob, fp)}
    IN IF ~re_compiles(pattern) THEN Answer("error", <<>>)
       ELSE IF ~exists THEN Answer("list", <<>>)
       ELSE Answer("list",
                   FileMatches(SortedPaths(searched),
                               [fp \in searched |-> PySplitLines(w.disk[fp])], pattern))

DigitChars == <<"0", "1", "2", "3", "4", "5", "6", "7", "8", "9">>

\* str(n) of a natural number
RECURSIVE Str(_)
Str(n) == IF n < 10 THEN <<DigitChars[n + 1]>> ELSE Str(n \div 10) \o <<DigitChars[(n % 10) + 1]>>

IsDigits(s) == s # <<>> /\ \A i \in 1..Len(s) : \E d \in 1..10 : DigitChars[d] = s[i]

\* int(s) of a string of digits
RECURSIVE ToInt(_)
ToInt(s) ==
    IF s = <<>> THEN 0
    ELSE 10 * ToInt(SubSeq(s, 1, Len(s) - 1)) + ((CHOOSE d \in 1..10 : DigitChars[d] = s[Len(s)]) - 1)

\* s.split(ch, maxsplit)
RECURSIVE PySplitMax(_, _, _)
PySplitMax(s, ch, maxsplit) ==
    IF maxsplit = 0 \/ \A i \in 1..Len(s) : s[i] # ch THEN <<s>>
    ELSE LET i == CHOOSE j \in 1..Len(s) : s[j] = ch /\ \A k \in 1..(j - 1) : s[k] # ch
         IN <<Take(s, i - 1)>> \o PySplitMax(Drop(s, i), ch, maxsplit - 1)

\* the loop of BaseSandbox.grep_raw over the lines path:line_number:text of
\* the output: a line of fewer than three parts is skipped, and int() of a
\* second part that is no number raises ValueError
RECURSIVE ParseGrepLines(_, _)
ParseGrepLines(lines, matches) ==
    IF lines = <<>> THEN Answer("list", matches)
    ELSE LET parts == PySplitMax(Head(lines), ":", 2)
         IN IF Len(parts) < 3 THEN ParseGrepLines(Tail(lines), matches)
            ELSE IF ~IsDigits(parts[2]) THEN Answer("raised", <<>>)
            ELSE ParseGrepLines(Tail(lines),
                                Append(matches, GrepMatch(parts[1], ToInt(parts[2]), parts[3])))

\* BaseSandbox.grep_raw(pattern, path, glob): grep -rHnF prints every match as
\* path:line_number:text, the path being the search path joined with the path
\* below it, and the printed lines are parsed back
SandboxGrepRaw(w, pattern, path, glob) ==
    LET search_path == IF path = NoPath THEN <<".">> ELSE path
        top == PyRStrip(search_path, "/")
        searched == {fp \in DOMAIN w.remote :
                        /\ fp = top \/ IsUnder(top, fp)
                        /\ IncludedBy(glob, fp)}
        printed(fp) == IF fp = top THEN search_path
                       ELSE IF EndsWith(search_path, <<"/">>)
                            THEN search_path \o Below(top, fp)
                            ELSE search_path \o <<"/">> \o Below(top, fp)
        found == FileMatches(SortedPaths(searched),
                             [fp \in searched |-> PySplitLines(w.remote[fp])], pattern)
        output == [i \in 1..Len(found) |->
                      printed(found[i].path) \o <<":">> \o Str(found[i].line) \o <<":">>
                      \o found[i].text]
    IN ParseGrepLines(output, <<>>)

BackendGrepRaw(b, w, pattern, path, glob, ripgrep) ==
    CASE b = "state" -> StateGrepRaw(w, pattern, path, glob)
      [] b = "store" -> StoreGrepRaw(w, pattern, path, glob)
      [] b = "disk" -> FilesystemGrepRaw(w, pattern, path, glob, ripgrep)
      [] OTHER -> SandboxGrepRaw(w, pattern, path, glob)

\* ----------------------------------- backends/composite.py: grep_raw, glob_info
\* path[len(route_prefix) - 1:], "/" when that is empty
SearchPathFrom(route_prefix, path) ==
    LET search_path == Drop(path, Len(route_prefix) - 1)
    IN IF search_path = <<>> THEN <<"/">> ELSE search_path

\* {**m, "path": f"{route_prefix[:-1]}{m['path']}"} for every entry
Restored(route_prefix, entries) ==
    [k \in 1..Len(entries) |->
        [entries[k] EXCEPT !.path = RestorePrefix(route_prefix, entries[k].path)]]

\* the loop over self.routes.items() of grep_raw: the first error string ends it
RECURSIVE GrepRoutes(_, _, _, _, _, _)
GrepRoutes(rs, w, pattern, glob, ripgrep, all_matches) ==
    IF rs = <<>> THEN Answer("list", all_matches)
    ELSE LET raw == BackendGrepRaw(Head(rs)[2], w, pattern, <<"/">>, glob, ripgrep)
         IN IF raw.kind # "list" THEN raw
            ELSE GrepRoutes(Tail(rs), w, pattern, glob, ripgrep,
                            all_matches \o Restored(Head(rs)[1], raw.items))

\* CompositeBackend.grep_raw(pattern, path, glob)
CompositeGrepRaw(rs, w, pattern, path, glob, ripgrep) ==
    LET sorted == sorted_routes(rs)
        i == IF path = NoPath THEN 0 ELSE FirstLooseMatch(sorted, path)
    IN IF i # 0
       THEN LET raw == BackendGrepRaw(sorted[i][2], w, pattern,
                                      SearchPathFrom(sorted[i][1], path), glob, ripgrep)
            IN IF raw.kind # "list" THEN raw
               ELSE Answer("list", Restored(sorted[i][1], raw.items))
       ELSE IF path = NoPath \/ path = <<"/">>
       THEN LET raw_default == BackendGrepRaw(DefaultBackend, w, pattern, path, glob, ripgrep)
            IN IF raw_default.kind # "list" THEN raw_default
               ELSE GrepRoutes(rs, w, pattern, glob, ripgrep, raw_default.items)
       ELSE BackendGrepRaw(DefaultBackend, w, pattern, path, glob, ripgrep)

\* the loop over self.routes.items() of glob_info
RECURSIVE GlobRoutes(_, _, _)
GlobRoutes(rs, w, pattern) ==
    IF rs = <<>> THEN <<>>
    ELSE Restored(Head(rs)[1], BackendGlobInfo(Head(rs)[2], w, pattern, <<"/">>))
         \o GlobRoutes(Tail(rs), w, pattern)

\* CompositeBackend.glob_info(pattern, path)
CompositeGlobInfo(rs, w, pattern, path) ==
    LET sorted == sorted_routes(rs)
        i == FirstLooseMatch(sorted, path)
    IN IF i # 0
       THEN Restored(sorted[i][1],
                     BackendGlobInfo(sorted[i][2], w, pattern,
                                     SearchPathFrom(sorted[i][1], path)))
       ELSE SortByPath(BackendGlobInfo(DefaultBackend, w, pattern, path)
                       \o GlobRoutes(rs, w, pattern))

\* ------------------------------------------- query specification: actions
StarPy == <<"*", ".", "p", "y">>

StarStarPy == <<"*", "*", "/">> \o StarPy

GlobPatterns == {StarPy, StarStarPy}

SubPath == <<"/", "s", "u", "b", "/">>

ABcPath == PrefixA \o <<"b", "c", "/">>

GlobPaths == {RootPath, SubPath, PrefixA, ABcPath, <<"/", "n", "o">>}

GrepPatterns == {<<"a">>, <<"a", "a">>, <<"[">>}

GrepPaths == {NoPath, RootPath, SubPath, PrefixA, ABcPath, MainPy, <<"/", "n", "o">>}

Globs == {NoGlob, StarPy}

\* backend.glob_info(pattern, path) on one backend
GlobInfo(b, pattern, path) ==
    /\ pc = "query"
    /\ last' = QueryOp("glob", b, pattern, path, NoGlob, FALSE,
                       Answer("list", BackendGlobInfo(b, Now, pattern, path)))
    /\ pc' = "answered"
    /\ ops' = ops + 1
    /\ UNCHANGED <<files, pending, store, disk, remote, routes, inp>>

\* CompositeBackend.glob_info(pattern, path)
RouterGlobInfo(pattern, path) ==
    /\ pc = "query"
    /\ last' = QueryOp("glob", "router", pattern, path, NoGlob, FALSE,
                       Answer("list", CompositeGlobInfo(routes, Now, pattern, path)))
    /\ pc' = "answered"
    /\ ops' = ops + 1
    /\ UNCHANGED <<files, pending, store, disk, remote, routes, inp>>

\* backend.grep_raw(pattern, path, glob) on one backend; ripgrep tells whether
\* rg is installed where a FilesystemBackend runs
GrepRaw(b, pattern, path, glob, ripgrep) ==
    /\ pc = "query"
    /\ last' = QueryOp("grep", b, pattern, path, glob, ripgrep,
                       BackendGrepRaw(b, Now, pattern, path, glob, ripgrep))
    /\ pc' = "answered"
    /\ ops' = ops + 1
    /\ UNCHANGED <<files, pending, store, disk, remote, routes, inp>>

\* CompositeBackend.grep_raw(pattern, path, glob)
RouterGrepRaw(pattern, path, glob, ripgrep) ==
    /\ pc = "query"
    /\ last' = QueryOp("grep", "router", pattern, path, glob, ripgrep,
                       CompositeGrepRaw(routes, Now, pattern, path, glob, ripgrep))
    /\ pc' = "answered"
    /\ ops' = ops + 1
    /\ UNCHANGED <<files, pending, store, disk, remote, routes, inp>>

NextQuery ==
    \/ \E b \in Backends, path \in LsPaths : LsInfo(b, path)
    \/ \E path \in LsPaths : RouterLsInfo(path)
    \/ \E b \in Backends, pattern \in GlobPatterns, path \in GlobPaths :
          GlobInfo(b, pattern, path)
    \/ \E pattern \in GlobPatterns, path \in GlobPaths : RouterGlobInfo(pattern, path)
    \/ \E b \in Backends, pattern \in GrepPatterns, path \in GrepPaths, glob \in Globs,
          ripgrep \in BOOLEAN : GrepRaw(b, pattern, path, glob, ripgrep)
    \/ \E pattern \in GrepPatterns, path \in GrepPaths, glob \in Globs, ripgrep \in BOOLEAN :
          RouterGrepRaw(pattern, path, glob, ripgrep)

SpecQuery == InitQuery /\ [][NextQuery]_vars

\* a query of kind op through via has been answered
Queried(op, via) == pc = "answered" /\ last.op = op /\ last.via = via

\* ------------------------------------------------------- claims on queries
\* how often e occurs in the list
Occurrences(list, e) == Cardinality({i \in 1..Len(list) : list[i] = e})

\* the directory entries of the configured routes
RouteDirs == [k \in 1..Len(routes) |-> FileInfo(routes[k][1], TRUE, 0, NoTime)]

AscendingByPath(list) ==
    \A i, j \in 1..Len(list) : i < j => ~StrLess(list[j].path, list[i].path)

\* C14: ls_info("/") of the router returns the entries that the default
\* backend lists for "/" together with one directory entry (is_dir true, size
\* 0) per configured route prefix, and nothing else, in ascending order of path.
C14_RootListing ==
    Queried("ls", "router") /\ last.path = RootPath =>
        LET out == last.out.items
            own == BackendLsInfo(DefaultBackend, Now, RootPath)
        IN /\ last.out.kind = "list"
           /\ Len(out) = Len(own) + Len(routes)
           /\ \A i \in 1..Len(out) :
                 Occurrences(out, out[i]) = Occurrences(own, out[i]) + Occurrences(RouteDirs, out[i])
           /\ \A i \in 1..Len(own) : Occurrences(out, own[i]) >= 1
           /\ \A i \in 1..Len(routes) : Occurrences(out, RouteDirs[i]) >= 1
           /\ AscendingByPath(out)

\* the router has listed "/" with two routes and files in the default backend
C14_Witness ==
    /\ Queried("ls", "router")
    /\ last.path = RootPath
    /\ Len(routes) = 2
    /\ files # EmptyMap
    /\ Len(last.out.items) = Len(BackendLsInfo(DefaultBackend, Now, RootPath)) + 2

\* every configured prefix ends with "/"
SlashRoutes == \A i \in 1..Len(routes) : EndsWith(routes[i][1], <<"/">>)

\* the matches of a backend with the prefix of its route put back
WithPrefix(route_prefix, matches) ==
    [k \in 1..Len(matches) |->
        [matches[k] EXCEPT !.path = PyRStrip(route_prefix, "/") \o matches[k].path]]

\* the matches of every route's backend for "/", route after route
RECURSIVE RouteMatches(_, _, _, _)
RouteMatches(rs, pattern, glob, ripgrep) ==
    IF rs = <<>> THEN <<>>
    ELSE WithPrefix(Head(rs)[1],
                    BackendGrepRaw(Head(rs)[2], Now, pattern, RootPath, glob, ripgrep).items)
         \o RouteMatches(Tail(rs), pattern, glob, ripgrep)

SameEntries(left, right) ==
    /\ Len(left) = Len(right)
    /\ \A i \in 1..Len(left) : Occurrences(left, left[i]) = Occurrences(right, left[i])

\* grep_raw of the router with no path or with "/" returns the matches of the
\* default backend together with the matches of every route's backend for "/",
\* each under its route prefix
C15_UnscopedFanOut ==
    (/\ Queried("grep", "router")
     /\ last.path \in {NoPath, RootPath}
     /\ SlashRoutes
     /\ re_compiles(last.pattern)) =>
        /\ last.out.kind = "list"
        /\ SameEntries(last.out.items,
                       BackendGrepRaw(DefaultBackend, Now, last.pattern, last.path,
                                      last.glob, last.ripgrep).items
                       \o RouteMatches(routes, last.pattern, last.glob, last.ripgrep))

\* C15: grep_raw of the router with no path or with "/" returns the matches of
\* the default backend together with, for every route, the matches of its
\* backend for "/" under the route prefix; with a path under a route prefix it
\* returns the matches of that route's backend alone, under the route prefix.
C15_GrepFanOut ==
    /\ C15_UnscopedFanOut
    /\ (/\ Queried("grep", "router")
        /\ last.path # NoPath
        /\ Matching(last.path) # {}
        /\ SlashRoutes
        /\ re_compiles(last.pattern)) =>
           LET route == routes[Longest(last.path)]
               key == <<"/">> \o Drop(last.path, Len(route[1]))
           IN /\ last.out.kind = "list"
              /\ SameEntries(last.out.items,
                             WithPrefix(route[1],
                                        BackendGrepRaw(route[2], Now, last.pattern, key,
                                                       last.glob, last.ripgrep).items))

\* the path of an entry as an absolute path (the remote shell prints the
\* names below the base path)
Absolute(path) == IF StartsWith(path, <<"/">>) THEN path ELSE <<"/">> \o path

\* the paths that glob_info returned
Globbed == {Absolute(last.out.items[i].path) : i \in 1..Len(last.out.items)}

\* the backend b holds the files QueryFiles
Holding(b) == b = "state" => DOMAIN files = QueryFiles

\* glob_info has been asked on backend b, which holds "/main.py" and
\* "/sub/dir/file.py", for the pattern under "/"
GlobbedRoot(b, pattern) ==
    Queried("glob", b) /\ Holding(b) /\ last.pattern = pattern /\ last.path = RootPath

DirectlyIn(dir, path) == StartsWith(path, dir) /\ ~Contains(Drop(path, Len(dir)), <<"/">>)

NonRecursiveOn(b) ==
    /\ GlobbedRoot(b, StarPy) =>
          /\ SubDirFilePy \notin Globbed
          /\ MainPy \in Globbed
          /\ \A p \in Globbed : DirectlyIn(RootPath, p)
    /\ GlobbedRoot(b, StarStarPy) => SubDirFilePy \in Globbed

\* glob_info of the backends that match with wcmatch or with glob.glob is not
\* recursive for "*.py"
C16_GlobNonRecursiveInMemory == \A b \in {"state", "store", "sandbox"} : NonRecursiveOn(b)

\* C16: on every backend glob_info("*.py", "/") returns only files directly in
\* "/", so not "/sub/dir/file.py", and glob_info("**/*.py", "/") returns
\* "/sub/dir/file.py".
C16_GlobNonRecursive == \A b \in Backends : NonRecursiveOn(b)

\* ----------------------------------------------- ownership specification
PrefixM == <<"/", "m", "/">>

PrefixD == <<"/", "d", "/">>

\* two routes, each to a StateBackend, a StoreBackend or a FilesystemBackend;
\* a StateBackend shares the agent state with the default backend
OwnRouteTables == {<< <<PrefixM, b>>, <<PrefixD, c>> >> : b \in BatchBackends, c \in BatchBackends}

OwnContents == {<<"b">>}

\* every backend holds "/x", or every backend is empty
InitOwn ==
    /\ \E held \in BOOLEAN :
          /\ files = IF held THEN (KeyX :> create_file_data(<<"a">>, 0)) ELSE EmptyMap
          /\ store = IF held THEN (KeyX :> create_file_data(<<"a">>, 0)) ELSE EmptyMap
          /\ disk = IF held THEN (KeyX :> <<"a">>) ELSE EmptyMap
    /\ pending = <<>>
    /\ remote = EmptyMap
    /\ routes \in OwnRouteTables
    /\ ops = 0
    /\ last = NoOp
    /\ inp = <<>>
    /\ pc = "storage"

NextOwn ==
    \/ \E p \in RouterPaths, c \in OwnContents : RouterWrite(p, c)
    \/ \E p \in RouterPaths, old \in OldStrings, new \in OwnContents : RouterEdit(p, old, new, FALSE)

SpecOwn == InitOwn /\ [][NextOwn]_vars

\* what read, ls_info, grep_raw and glob_info of the default backend return
DefaultView(w) ==
    [read |-> [k \in RouterPaths |-> BackendRead(DefaultBackend, w, k, 0, DEFAULT_LIMIT)],
     ls |-> [p \in {RootPath, PrefixM, PrefixD} |-> BackendLsInfo(DefaultBackend, w, p)],
     grep |-> [t \in OldStrings \cup OwnContents |->
                  BackendGrepRaw(DefaultBackend, w, t, RootPath, NoGlob, FALSE)],
     glob |-> BackendGlobInfo(DefaultBackend, w, <<"*", "*">>, RootPath)]

\* the files of a backend
FilesOf(b, w) ==
    CASE b = "state" -> w.files
      [] b = "store" -> w.store
      [] b = "disk" -> w.disk
      [] OTHER -> w.remote

\* the step is a write or an edit through the router
RouterChange == ops' # ops /\ last'.via = "router" /\ last'.op \in {"write", "edit"}

Isolated ==
    RouterChange =>
        IF Matching(last'.path) # {}
        THEN DefaultView(Now') = DefaultView(Now)
        ELSE \A i \in 1..Len(routes) : FilesOf(routes[i][2], Now') = FilesOf(routes[i][2], Now)

\* no route leads to a backend that keeps its files in the agent state
NoStateRoute == \A i \in 1..Len(routes) : routes[i][2] # DefaultBackend

\* with routes to backends of their own storage, a write or edit under a route
\* prefix leaves the default backend's answers, and a write or edit elsewhere
\* leaves the files of every route's backend
C17_IsolatedWithoutStateRoute == [][NoStateRoute => Isolated]_vars

\* C17: a write or edit through the router to a path under a route prefix
\* never changes what read, ls_info, grep_raw and glob_info of the default
\* backend return, and a write or edit to a path under no prefix never changes
\* the files of a route's backend.
C17_FilesBelongToOneBackend == [][Isolated]_vars

\* ------------------------------------------------ claims on errors as data
\* the path names no directory of backend b
NoDirectory(b, path) ==
    /\ path # RootPath
    /\ PyRStrip(path, "/") \notin DirsOf(DOMAIN FilesOf(b, Now))

ReturnsData ==
    pc = "answered" =>
        /\ last.out.kind \in {"list", "error"}
        /\ (last.op = "grep" /\ last.via # "sandbox" /\ ~re_compiles(last.pattern)) =>
               last.out.kind = "error"
        /\ (last.op = "ls" /\ last.via \in Backends /\ NoDirectory(last.via, last.path)) =>
               last.out = Answer("list", <<>>)

\* ls_info, grep_raw and glob_info of StateBackend, StoreBackend,
\* FilesystemBackend and the router return a list or an error string
C18_LocalQueriesReturnData == (pc = "answered" /\ last.via # "sandbox") => ReturnsData

\* C18: ls_info, grep_raw and glob_info of every backend return their outcome
\* as data and never raise: a pattern that is no regular expression comes back
\* as an error string, and ls_info of a path that is no directory returns the
\* empty list.
C18_QueriesReturnData == ReturnsData

\* ------------------------------------------------ claims on the remote shell
\* the step is backend.edit on the BaseSandbox
SandboxEdited == Performed("edit") /\ last'.via = "direct" /\ last'.backend = "sandbox"

\* the outcome that the state of the file before the edit calls for
EditOutcome(r, file_path, old, replace_all) ==
    IF file_path \notin DOMAIN r THEN "not_found"
    ELSE IF PyCount(r[file_path], old) = 0 THEN "string_not_found"
    ELSE IF PyCount(r[file_path], old) > 1 /\ ~replace_all THEN "multiple_occurrences"
    ELSE "none"

EditOutcomeReported ==
    /\ last'.res.error = EditOutcome(remote, last'.path, last'.old, last'.replace_all)
    /\ last'.res.error = "none" => last'.res.occurrences = PyCount(remote[last'.path], last'.old)

\* the edit of a file that exists reports "string not found", "appears
\* multiple times" or the number of replacements, as the text calls for
C19_EditOfExistingFile ==
    [][(SandboxEdited /\ last'.path \in DOMAIN remote) => EditOutcomeReported]_vars

\* C19: the edit of BaseSandbox reports "file not found" for an absent file,
\* "string not found" when old does not occur, "appears multiple times" when it
\* occurs more than once without replace_all, and the number of replacements
\* otherwise.
C19_EditOutcomesDistinct == [][SandboxEdited => EditOutcomeReported]_vars

\* ------------------------------------------- remote write under interleaving
\* BaseSandbox.write as the steps of its script in the remote environment,
\* where another process creates files at any moment
KeyY == <<"/", "y">>

RacePaths == {KeyX, KeyY}

OtherTexts == {<<"o">>}

InitRace ==
    /\ files = EmptyMap
    /\ pending = <<>>
    /\ store = EmptyMap
    /\ disk = EmptyMap
    /\ remote \in {EmptyMap, (KeyX :> <<"o">>)}
    /\ routes = <<>>
    /\ ops = 0
    /\ last = NoOp
    /\ inp \in [file_path : RacePaths, content : Contents]
    /\ pc = "called"

\* _WRITE_COMMAND_TEMPLATE: if os.path.exists(file_path): sys.exit(1)
ExistsCheck ==
    /\ pc = "called"
    /\ pc' = IF inp.file_path \in DOMAIN remote THEN "exit 1" ELSE "checked"
    /\ UNCHANGED <<files, pending, store, disk, remote, routes, ops, last, inp>>

\* _WRITE_COMMAND_TEMPLATE: with open(file_path, 'w') as f: f.write(content)
OpenAndWrite ==
    /\ pc = "checked"
    /\ remote' = Put(remote, inp.file_path, inp.content)
    /\ pc' = "exit 0"
    /\ UNCHANGED <<files, pending, store, disk, routes, ops, last, inp>>

\* BaseSandbox.write: the WriteResult made of the exit code
WriteReturns ==
    /\ pc \in {"exit 0", "exit 1"}
    /\ last' = [NoOp EXCEPT !.op = "write", !.via = "direct", !.backend = "sandbox",
                            !.path = inp.file_path, !.key = inp.file_path,
                            !.content = inp.content,
                            !.res = IF pc = "exit 1" THEN Failed("already_exists")
                                    ELSE Result("none", inp.file_path, FALSE, EmptyMap, 0)]
    /\ pc' = "returned"
    /\ UNCHANGED <<files, pending, store, disk, remote, routes, ops, inp>>

\* another process of the remote environment creates a file
OtherCreates(p, text) ==
    /\ ops < MaxOps
    /\ p \notin DOMAIN remote
    /\ remote' = Put(remote, p, text)
    /\ ops' = ops + 1
    /\ UNCHANGED <<files, pending, store, disk, routes, last, inp, pc>>

NextRace ==
    \/ ExistsCheck
    \/ OpenAndWrite
    \/ WriteReturns
    \/ \E p \in RacePaths, text \in OtherTexts : OtherCreates(p, text)

SpecRace == InitRace /\ [][NextRace]_vars

\* a write that reports success leaves its content in the file
C20_SuccessWritesContent ==
    (pc = "returned" /\ last.res.error = "none") =>
        inp.file_path \in DOMAIN remote /\ remote[inp.file_path] = inp.content

\* C20: the write of BaseSandbox checks and writes in one atomic step: under
\* every interleaving with another process that creates the same path, the
\* script that goes on to report success writes to a path at which no file
\* exists.
C20_WriteNeverOverwrites ==
    [][(pc = "checked" /\ pc' = "exit 0") => inp.file_path \notin DOMAIN remote]_vars

\* ------------------------------------ backends/store.py: agents of one store
\* an agent without assistant_id in the metadata of its config
NoId == ""

AssistantIds == {NoId, "a", "b", "filesystem"}

\* StoreBackend._get_namespace: (assistant_id, "filesystem") when the
\* identifier is truthy, ("filesystem",) otherwise
_get_namespace(assistant_id) ==
    IF assistant_id # NoId THEN <<assistant_id, "filesystem">> ELSE <<"filesystem">>

Namespaces == {_get_namespace(id) : id \in AssistantIds}

\* BaseStore.search(namespace_prefix): the namespaces the prefix covers
Covered(namespace_prefix) ==
    {n \in Namespaces : Len(namespace_prefix) <= Len(n)
                        /\ Take(n, Len(namespace_prefix)) = namespace_prefix}

\* files[item.key] = ... over the items in the order of the search
Overlay(first, second) ==
    [k \in DOMAIN first \cup DOMAIN second |->
        IF k \in DOMAIN second THEN second[k] ELSE first[k]]

RECURSIVE OverlayAll(_, _)
OverlayAll(s, namespaces) ==
    IF namespaces = {} THEN EmptyMap
    ELSE LET n == CHOOSE m \in namespaces : TRUE
         IN Overlay(OverlayAll(s, namespaces \ {n}), s[n])

\* _search_store_paginated(store, namespace) gathered into the files of a
\* listing or a search; the order of items of several namespaces is the store's
\* own, so the items of the namespace itself come first or last
_search_store_paginated(s, ns, own_last) ==
    LET others == OverlayAll(s, Covered(ns) \ {ns})
    IN IF own_last THEN Overlay(others, s[ns]) ELSE Overlay(s[ns], others)

\* the world of one StoreBackend: the items store.get(namespace, key) finds
Got(id) == World(EmptyMap, store[_get_namespace(id)], EmptyMap, EmptyMap)

\* the world of one StoreBackend: the items its search finds
Searched(id, own_last) ==
    World(EmptyMap, _search_store_paginated(store, _get_namespace(id), own_last),
          EmptyMap, EmptyMap)

AgentPaths == {KeyX, KeyY}

AgentTexts == {<<"a">>, <<"b">>}

InitAgents ==
    /\ files = EmptyMap
    /\ pending = <<>>
    /\ store = [n \in Namespaces |-> EmptyMap]
    /\ disk = EmptyMap
    /\ remote = EmptyMap
    /\ routes = <<>>
    /\ ops = 0
    /\ last = [op |-> "none", id |-> NoId, out |-> <<>>, alone |-> <<>>]
    /\ inp = NoPath
    /\ pc = "agents"

\* what an agent's call changes: store.put(namespace, ...) of its namespace
Stored(id, op, out, w) ==
    /\ pc = "agents"
    /\ ops < MaxOps
    /\ store' = [store EXCEPT ![_get_namespace(id)] = w.store]
    /\ last' = [op |-> op, id |-> id, out |-> out, alone |-> out]
    /\ ops' = ops + 1
    /\ UNCHANGED <<files, pending, disk, remote, routes, inp, pc>>

\* what an agent's call answers, and what it answers from its own files alone
Answered(id, op, out, alone) ==
    /\ pc = "agents"
    /\ ops < MaxOps
    /\ last' = [op |-> op, id |-> id, out |-> out, alone |-> alone]
    /\ ops' = ops + 1
    /\ UNCHANGED <<files, pending, store, disk, remote, routes, inp, pc>>

AgentWrite(id, p, text) ==
    LET got == StoreWrite(Got(id), p, text, ops + 1)
    IN Stored(id, "write", got.res, got.world)

AgentEdit(id, p) ==
    \E old \in AgentTexts, new \in AgentTexts :
        LET got == StoreEdit(Got(id), p, old, new, FALSE, ops + 1)
        IN Stored(id, "edit", got.res, got.world)

AgentUpload(id, p, text) ==
    LET got == StoreUpload(Got(id), << <<p, text>> >>, ops + 1)
    IN Stored(id, "upload", got.responses, got.world)

AgentRead(id, p) ==
    Answered(id, "read", StoreRead(Got(id), p, 0, DEFAULT_LIMIT),
             StoreRead(Got(id), p, 0, DEFAULT_LIMIT))

AgentDownload(id, p) ==
    Answered(id, "download", StoreDownload(Got(id), <<p>>).responses,
             StoreDownload(Got(id), <<p>>).responses)

AgentLsInfo(id, own_last) ==
    Answered(id, "ls", StoreLsInfo(Searched(id, own_last), RootPath),
             StoreLsInfo(Got(id), RootPath))

AgentGrepRaw(id, own_last, text) ==
    Answered(id, "grep", StoreGrepRaw(Searched(id, own_last), text, NoPath, NoGlob),
             StoreGrepRaw(Got(id), text, NoPath, NoGlob))

AgentGlobInfo(id, own_last) ==
    Answered(id, "glob", StoreGlobInfo(Searched(id, own_last), <<"*">>, RootPath),
             StoreGlobInfo(Got(id), <<"*">>, RootPath))

NextAgents ==
    \/ \E id \in AssistantIds, p \in AgentPaths, text \in AgentTexts : AgentWrite(id, p, text)
    \/ \E id \in AssistantIds, p \in AgentPaths : AgentEdit(id, p)
    \/ \E id \in AssistantIds, p \in AgentPaths, text \in AgentTexts : AgentUpload(id, p, text)
    \/ \E id \in AssistantIds, p \in AgentPaths : AgentRead(id, p)
    \/ \E id \in AssistantIds, p \in AgentPaths : AgentDownload(id, p)
    \/ \E id \in AssistantIds, own_last \in BOOLEAN : AgentLsInfo(id, own_last)
    \/ \E id \in AssistantIds, own_last \in BOOLEAN, text \in AgentTexts :
           AgentGrepRaw(id, own_last, text)
    \/ \E id \in AssistantIds, own_last \in BOOLEAN : AgentGlobInfo(id, own_last)

SpecAgents == InitAgents /\ [][NextAgents]_vars

\* a call answers from the files of its agent alone, and changes no files but
\* its agent's
AnswersAlone == last.out = last.alone

ChangesOwn ==
    \A n \in Namespaces : store'[n] # store[n] => ops' # ops /\ n = _get_namespace(last'.id)

\* an agent whose namespace no other namespace of the store extends
NotExtended(id) == Covered(_get_namespace(id)) = {_get_namespace(id)}

\* no call of an agent changes the files of another agent, and the calls of
\* an agent whose namespace is not a prefix of another agent's answer from its
\* own files alone
C21_WritesIsolated == [][ChangesOwn]_vars

C21_IsolatedWhereNotPrefix == NotExtended(last.id) => AnswersAlone

\* C21: agents of one store are isolated: no list, read, search or download of
\* an agent returns a file of another agent's namespace and no write, edit or
\* upload changes one, the agent without identifier included.
C21_AgentsIsolated == AnswersAlone

\* --------------------------------------------- backends/sandbox.py: read
\* str.rstrip() of the whole output: the blanks that end the last row go
RStripBlanks(s) ==
    IF StripsToEmpty(s) THEN <<>>
    ELSE Take(s, CHOOSE i \in 1..Len(s) :
                     ~IsSpace(s[i]) /\ \A j \in (i + 1)..Len(s) : IsSpace(s[j]))

\* _READ_COMMAND_TEMPLATE and BaseSandbox.read: one printed row for each of
\* lines[offset:offset + limit], whatever its length
SandboxRead(w, file_path, offset, limit) ==
    IF file_path \notin DOMAIN w.remote THEN ReadOut("not_found", <<>>)
    ELSE IF w.remote[file_path] = <<>> THEN ReadOut("empty", <<>>)
    ELSE LET lines == PySplitLines(w.remote[file_path])
             selected_lines == SubSeq(lines, offset + 1, Min(offset + limit, Len(lines)))
         IN ReadOut("rows",
                    [i \in 1..Len(selected_lines) |->
                        <<offset + i, 0,
                          IF i = Len(selected_lines) THEN RStripBlanks(selected_lines[i])
                          ELSE selected_lines[i]>>])

\* read of each of the four backends
ReadOf(b, w, file_path, offset, limit) ==
    IF b = "sandbox" THEN SandboxRead(w, file_path, offset, limit)
    ELSE BackendRead(b, w, file_path, offset, limit)

\* ------------------------------------------------ reading long lines
\* lengths around the cap and around twice the cap
LineLengths ==
    {1, MAX_LINE_LENGTH, MAX_LINE_LENGTH + 1, 2 * MAX_LINE_LENGTH, 2 * MAX_LINE_LENGTH + 1}

SecondLines == {<<>>, <<"a">>}

\* one line, or two lines, the file ending with or without a line terminator
LongContents ==
    {Repeated(n) : n \in LineLengths}
    \cup {Repeated(n) \o <<NL>> \o second : n \in LineLengths, second \in SecondLines}

InitLines ==
    /\ \E content \in LongContents :
          /\ files = (KeyX :> create_file_data(content, 0))
          /\ store = (KeyX :> create_file_data(content, 0))
          /\ disk = (KeyX :> content)
          /\ remote = (KeyX :> content)
    /\ pending = <<>>
    /\ routes = <<>>
    /\ ops = 0
    /\ last = NoOp
    /\ inp = NoPath
    /\ pc = "lines"

\* backend.read(file_path, offset, limit) of the file of long lines
ReadLines(b, offset, limit) ==
    /\ pc = "lines"
    /\ last' = [NoOp EXCEPT !.op = "read", !.via = "direct", !.backend = b, !.path = KeyX,
                            !.key = KeyX, !.offset = offset, !.limit = limit,
                            !.out = ReadOf(b, Now, KeyX, offset, limit), !.n = 1]
    /\ ops' = 1
    /\ pc' = "read"
    /\ UNCHANGED <<files, pending, store, disk, remote, routes, inp>>

NextLines == \E b \in Backends, offset \in Offsets, limit \in Limits : ReadLines(b, offset, limit)

SpecLines == InitLines /\ [][NextLines]_vars

\* the lines of the file read, and the rows a read gave for line k
LinesRead == PySplitLines(remote[KeyX])

RowsOfLine(k) == SelectSeq(last.out.rows, LAMBDA row : row[1] = k)

RECURSIVE RowsText(_)
RowsText(rows) == IF rows = <<>> THEN <<>> ELSE Head(rows)[3] \o RowsText(Tail(rows))

\* ceil(n / MAX_LINE_LENGTH) rows for a line longer than the cap, one otherwise
RowsExpected(n) ==
    IF n > MAX_LINE_LENGTH THEN (n + MAX_LINE_LENGTH - 1) \div MAX_LINE_LENGTH ELSE 1

\* the rows of a read: the lines offset + 1 .. offset + limit in order, each
\* as rows tagged k, k.1, k.2, ... whose texts make up the line
SplitNotTruncated ==
    LET rows == last.out.rows
        first == last.offset + 1
        end == Min(last.offset + last.limit, Len(LinesRead))
    IN /\ {rows[i][1] : i \in 1..Len(rows)} = first..end
       /\ \A i \in 1..(Len(rows) - 1) : rows[i][1] <= rows[i + 1][1]
       /\ \A k \in first..end :
             /\ Len(RowsOfLine(k)) = RowsExpected(Len(LinesRead[k]))
             /\ \A j \in 1..Len(RowsOfLine(k)) : RowsOfLine(k)[j][2] = j - 1
             /\ RowsText(RowsOfLine(k)) = LinesRead[k]

ReadRows == last.op = "read" /\ last.out.kind = "rows"

\* the three backends that format with format_content_with_line_numbers split
\* a long line into ceil(n / cap) rows and drop nothing
C22_FormatterSplits == (ReadRows /\ last.backend # "sandbox") => SplitNotTruncated

\* C22: read never truncates a long line: a line longer than the cap comes as
\* ceil(n / cap) rows tagged k, k.1, ... whose texts concatenate to the line, a
\* shorter line as one row, and line numbers start at offset + 1.
C22_LongLinesSplit == ReadRows => SplitNotTruncated

\* ------------------------------------------- claims on the scope of queries
\* p is the requested path or lies below it
LiesUnder(path, p) ==
    \/ p = path
    \/ StartsWith(p, IF EndsWith(path, <<"/">>) THEN path ELSE path \o <<"/">>)

ScopedQuery ==
    /\ pc = "answered"
    /\ last.via = "router"
    /\ last.path # NoPath
    /\ last.out.kind = "list"

EntriesUnderPath == \A i \in 1..Len(last.out.items) : LiesUnder(last.path, last.out.items[i].path)

\* a route prefix that the requested path only shares a start with: the path
\* starts with the prefix less its final "/", not with the prefix
SharesStartOnly ==
    \E i \in 1..Len(routes) :
        /\ StartsWith(last.path, PyRStrip(routes[i][1], "/"))
        /\ ~StartsWith(last.path, routes[i][1])

\* a glob below a directory of the default backend, which glob_info also hands
\* to every route's backend for "/"
UnroutedGlob == last.op = "glob" /\ last.path # RootPath /\ Matching(last.path) = {}

\* where no route only shares a start with the requested path, every entry of
\* a router query other than an unrouted glob lies under the requested path
C23_ScopedWhereRouteMatches ==
    (ScopedQuery /\ ~SharesStartOnly /\ ~UnroutedGlob) => EntriesUnderPath

\* C23: every entry that list, search_glob or search_text of the router
\* returns for a path lies under that path; a directory that only shares the
\* start of its name with a route is not served by that route's backend.
C23_QueriesStayUnderPath == ScopedQuery => EntriesUnderPath

\* ------------------------------- eviction of a command of two tool messages
\* a call id that differs from CallId1 and is sanitized to the same name
CallId3 == <<"c", "_", "1">>

\* the first message is of CallId1 and a run of "a", the second of another
\* call id and lines of "a"
FirstMessages == {ToolMessage(TextContent(Repeated(n)), CallId1) : n \in BoundaryLengths}

SecondMessages ==
    {ToolMessage(TextContent(Alternating(n)), id) : n \in BoundaryLengths, id \in {CallId2, CallId3}}

PairResults ==
    {Command(TRUE, <<m1, m2>>, fu, other, "none") :
        m1 \in FirstMessages, m2 \in SecondMessages, fu \in FilesUpdates,
        other \in {"none", "todos"}}

InitPairs ==
    /\ \E taken \in BOOLEAN :
          /\ files = Occupied(taken, create_file_data(<<"a">>, 0))
          /\ store = Occupied(taken, create_file_data(<<"a">>, 0))
          /\ disk = Occupied(taken, <<"a">>)
    /\ pending = <<>>
    /\ remote = EmptyMap
    /\ routes = <<>>
    /\ ops = 0
    /\ last = NoOp
    /\ inp \in [limit : TokenLimits, backend : EvictBackends, tool_name : ToolNames,
                tool_result : PairResults]
    /\ pc = "evict"

SpecPairs == InitPairs /\ [][NextEvict]_vars

\* the result of the interception has taken its effect on the files
Merged ==
    \/ pc = "applied"
    \/ pc = "evicted" /\ ~(last.result.shape = "command" /\ last.result.has_update)

\* the messages the interception replaced by a pointer
Pointers ==
    {i \in 1..Len(last.result.messages) :
        /\ last.result.messages[i].type = "tool"
        /\ last.result.messages[i].content.kind = "pointer"}

\* the file a pointer names holds the whole text of the result it replaced
PointerKeepsText(i) ==
    LET path == last.result.messages[i].content.file_path
    IN /\ Exists(inp.backend, Now, path)
       /\ StoredText(inp.backend, Now, path) = inp.tool_result.messages[i].content.text

\* the call ids of the tool result are sanitized to different names
DistinctNames ==
    \A i, j \in 1..Len(inp.tool_result.messages) :
        i # j => sanitize_tool_call_id(inp.tool_result.messages[i].tool_call_id)
                 # sanitize_tool_call_id(inp.tool_result.messages[j].tool_call_id)

\* where the call ids are sanitized to different names, the file of every
\* pointer holds the whole text
C24_KeptUnderDistinctNames == (Merged /\ DistinctNames) => \A i \in Pointers : PointerKeepsText(i)

\* C24: no evicted content is lost: once the returned file updates are merged,
\* the path every pointer message names holds exactly the full text of the
\* result the pointer replaced, so two results with different call ids are
\* never stored at the same path.
C24_NoEvictedContentLost == Merged => \A i \in Pointers : PointerKeepsText(i)

\* what _process_large_message gives for message i of the tool result, the
\* backend being as it was before the interception
ProcessedAlone(i) ==
    _process_large_message(inp.limit, inp.tool_result.messages[i], inp.backend, Now, ops + 1)

\* every message is there, in its place: as it was, or as the pointer that
\* its eviction alone gives
MessagesKept ==
    /\ Len(last'.result.messages) = Len(inp.tool_result.messages)
    /\ \A i \in 1..Len(inp.tool_result.messages) :
          last'.result.messages[i] \in {inp.tool_result.messages[i], ProcessedAlone(i).message}

\* the paths of the updates the evictions returned
EvictionPaths ==
    UNION {DOMAIN ProcessedAlone(i).files_update :
              i \in {j \in 1..Len(inp.tool_result.messages) :
                        /\ ProcessedAlone(j).has_update
                        /\ last'.result.messages[j].content.kind = "pointer"}}

\* the files of the returned command: the command's own updates, and the
\* update of every eviction
UpdatesKept ==
    /\ \A k \in DOMAIN inp.tool_result.files \ EvictionPaths :
          k \in DOMAIN last'.result.files /\ last'.result.files[k] = inp.tool_result.files[k]
    /\ \A i \in 1..Len(inp.tool_result.messages) :
          (ProcessedAlone(i).has_update /\ last'.result.messages[i].content.kind = "pointer") =>
              \A k \in DOMAIN ProcessedAlone(i).files_update :
                  /\ k \in DOMAIN last'.result.files
                  /\ last'.result.files[k] = ProcessedAlone(i).files_update[k]

\* for call ids that are sanitized to different names, the messages and the
\* updates of a command are all kept
C28_KeptUnderDistinctNames ==
    [][(Intercepting /\ DistinctNames) => MessagesKept /\ UpdatesKept]_vars

\* C28: of a command with several tool messages the interceptor processes
\* every message independently, keeps the messages in their order, and
\* returns the command's own file updates together with the update of every
\* eviction; no eviction's update is dropped or replaced by another's.
C28_CommandUpdatesAccumulated ==
    [][Intercepting => MessagesKept /\ UpdatesKept]_vars

\* ------------------------- backends/store.py: two writes at the same time
\* the two calls of StoreBackend.write that run at the same time, on threads
\* of the tool node or as tasks of awrite
Writers == {1, 2}

NotReturned == [error |-> "running"]

\* last.log holds the calls of the store in the order they were made
InitStoreRace ==
    /\ files = EmptyMap
    /\ pending = <<>>
    /\ store \in {EmptyMap, (KeyX :> create_file_data(<<"o">>, 0))}
    /\ disk = EmptyMap
    /\ remote = EmptyMap
    /\ routes = <<>>
    /\ ops = 0
    /\ last = [res |-> [i \in Writers |-> NotReturned], log |-> <<>>]
    /\ inp \in [Writers -> [file_path : RacePaths, content : Contents \ {<<>>}]]
    /\ pc = [i \in Writers |-> "called"]

\* existing = store.get(namespace, file_path), and the WriteResult of the
\* error when there is an item
StoreGet(i) ==
    /\ pc[i] = "called"
    /\ IF inp[i].file_path \in DOMAIN store
       THEN /\ pc' = [pc EXCEPT ![i] = "returned"]
            /\ last' = [res |-> [last.res EXCEPT ![i] = Failed("already_exists")],
                        log |-> Append(last.log, <<i, "get">>)]
       ELSE /\ pc' = [pc EXCEPT ![i] = "checked"]
            /\ last' = [last EXCEPT !.log = Append(last.log, <<i, "get">>)]
    /\ UNCHANGED <<files, pending, store, disk, remote, routes, ops, inp>>

\* store.put(namespace, file_path, store_value), and the WriteResult of the path
StorePut(i) ==
    /\ pc[i] = "checked"
    /\ store' = Put(store, inp[i].file_path, create_file_data(inp[i].content, ops + 1))
    /\ ops' = ops + 1
    /\ pc' = [pc EXCEPT ![i] = "returned"]
    /\ last' = [res |-> [last.res EXCEPT ![i] = Result("none", inp[i].file_path, FALSE, EmptyMap, 0)],
                log |-> Append(last.log, <<i, "put">>)]
    /\ UNCHANGED <<files, pending, disk, remote, routes, inp>>

NextStoreRace == \E i \in Writers : StoreGet(i) \/ StorePut(i)

SpecStoreRace == InitStoreRace /\ [][NextStoreRace]_vars

BothReturned == \A i \in Writers : pc[i] = "returned"

SamePath == inp[1].file_path = inp[2].file_path

Succeeded(i) == last.res[i].error = "none"

\* at most one of the two writes reports success, and the item holds the
\* content of the one that does
OneCreates ==
    /\ ~(Succeeded(1) /\ Succeeded(2))
    /\ \A i \in Writers :
          Succeeded(i) => file_data_to_string(store[inp[i].file_path]) = inp[i].content

\* one write made all its calls of the store before the other made its first
OneAfterTheOther ==
    \E i \in Writers :
        \A m, n \in 1..Len(last.log) : (last.log[m][1] = i /\ last.log[n][1] # i) => m < n

\* two writes of the same path of which one returns before the other starts
C25_CreateOnlyOneAfterTheOther == (BothReturned /\ SamePath /\ OneAfterTheOther) => OneCreates

\* C25: for every interleaving of two writes of the persistent backend to
\* the same path of one namespace, at most one returns success, and the
\* stored content is the content of that call.
C25_CreateOnlyUnderConcurrency == (BothReturned /\ SamePath) => OneCreates

\* ------------------------------ writes of one step to the ephemeral backend
\* a write of the StateBackend reports success
StateWriteSucceeds ==
    /\ Performed("write")
    /\ last'.via = "direct" /\ last'.backend = "state"
    /\ last'.res.error = "none"

\* the updates of the step that are not merged yet and hold the path
Unmerged(p) == {i \in 1..Len(pending) : p \in DOMAIN pending[i]}

\* a write of the ephemeral backend reports success only for a path that the
\* merged file map does not hold
C26_SuccessOnlyOffTheMergedMap == [][StateWriteSucceeds => last'.key \notin DOMAIN files]_vars

\* C26: of two writes of the ephemeral backend to the same new path that are
\* issued before the update of either is merged, at most one reports success:
\* no write succeeds for a path that an unmerged update of the step creates.
C26_OneWritePerStepSucceeds == [][StateWriteSucceeds => Unmerged(last'.key) = {}]_vars

\* ------------------------------------- the merge of the router's updates
\* a write or edit of the router returned an update of the shared state
RouterUpdate == RouterChange /\ last'.res.error = "none" /\ last'.res.has_update

\* the directory of a path, with its final "/"
ParentDir(p) == Take(p, Len(p) - Len(BaseName(p)))

\* what the calls that follow at once see: the read shows the file of the
\* update, the listing of its directory names it, and a write to it is refused
SeenAtOnce ==
    /\ CompositeRead(routes, Now', last'.path, 0, DEFAULT_LIMIT)
          = format_read_response(last'.res.files_update[last'.key], 0, DEFAULT_LIMIT)
    /\ \E i \in 1..Len(CompositeLsInfo(routes, Now', ParentDir(last'.path))) :
          CompositeLsInfo(routes, Now', ParentDir(last'.path))[i].path = last'.path
    /\ CompositeWrite(routes, Now', last'.path, <<"b">>, ops' + 1).res.error = "already_exists"

ReducerCall(left_is_none, left, right) ==
    IF left_is_none
    THEN [result |-> [k \in {j \in DOMAIN right : right[j] # Tombstone} |-> right[k]],
          left |-> left]
    ELSE [result |-> _file_data_reducer(left, right), left |-> left]

KeyZ == <<"/", "z">>

ReducerKeys == {KeyX, KeyY, KeyZ}

OldData == create_file_data(<<"a">>, 0)

NewData == create_file_data(<<"b">>, 1)

\* the maps over some of the keys
MapsOver(keys, values) == UNION {[d -> values] : d \in SUBSET keys}

\* files is the map passed as left, EmptyMap standing in when left is None
InitReduce ==
    /\ \E left_is_none \in BOOLEAN :
          /\ files \in (IF left_is_none THEN {EmptyMap} ELSE MapsOver({KeyX, KeyY}, {OldData}))
          /\ inp \in [left_is_none : {left_is_none},
                      right : MapsOver(ReducerKeys, {NewData, Tombstone})]
    /\ pending = <<>>
    /\ store = EmptyMap
    /\ disk = EmptyMap
    /\ remote = EmptyMap
    /\ routes = <<>>
    /\ ops = 0
    /\ last = [op |-> "none", result |-> EmptyMap]
    /\ pc = "reduce"

\* one call of the reducer
Reduce ==
    /\ pc = "reduce"
    /\ LET call == ReducerCall(inp.left_is_none, files, inp.right)
       IN /\ last' = [op |-> "reduce", result |-> call.result]
          /\ files' = call.left
    /\ pc' = "reduced"
    /\ ops' = ops + 1
    /\ UNCHANGED <<pending, store, disk, remote, routes, inp>>

NextReduce == Reduce

SpecReduce == InitReduce /\ [][NextReduce]_vars

Tombstoned(right) == {k \in DOMAIN right : right[k] = Tombstone}

\* C30: the merge of file maps treats a tombstone as a deletion: for every
\* existing map, or none, and every update the merged map has no tombstone
\* value, lacks exactly the tombstoned keys, maps every other key of the update
\* to the record of the update, keeps every key the update does not name, and
\* the existing map that was passed in is as it was.
C30_TombstoneDeletes ==
    [][(pc = "reduce" /\ pc' = "reduced") =>
        LET result == last'.result
            right == inp.right
        IN /\ \A k \in DOMAIN result : result[k] # Tombstone
           /\ (DOMAIN files \cup DOMAIN right) \ DOMAIN result = Tombstoned(right)
           /\ \A k \in DOMAIN right \ Tombstoned(right) : k \in DOMAIN result /\ result[k] = right[k]
           /\ \A k \in DOMAIN files \ DOMAIN right : k \in DOMAIN result /\ result[k] = files[k]
           /\ files' = files]_vars

\* a merge that deleted a file, replaced one and added one
C30_Witness ==
    /\ pc = "reduced"
    /\ DOMAIN files = {KeyX, KeyY}
    /\ inp.right = (KeyX :> Tombstone) @@ (KeyY :> NewData) @@ (KeyZ :> NewData)
    /\ DOMAIN last.result = {KeyY, KeyZ}

\* ------------------------------- backends/store.py: the paged fetch
MaxItems == 8        \* items of the namespace
MaxPageSize == 3     \* page sizes next to the default

\* page_size: int = 100
PAGE_SIZE == 100

PageSizes == 1..MaxPageSize \cup {PAGE_SIZE}

\* the numbers of items: few, and around the default page size and twice it
ItemCounts == 0..MaxItems \cup {PAGE_SIZE - 1, PAGE_SIZE, PAGE_SIZE + 1, 2 * PAGE_SIZE}

\* store.search(namespace, limit=limit, offset=offset) on a namespace whose
\* items do not change
StoreSearch(items, limit, offset) == SubSeq(items, offset + 1, Min(offset + limit, Len(items)))

\* the page is the last one: len(page_items) < page_size
\* the loop that goes on after a short page
ShortPage_ignored(page_items, page_size) == FALSE

ShortPage(page_items, page_size) == Len(page_items) < page_size

\* store is the list of the items of the namespace, in the order of search
InitPaging ==
    /\ files = EmptyMap
    /\ pending = <<>>
    /\ \E n \in ItemCounts : store = [i \in 1..n |-> i]
    /\ disk = EmptyMap
    /\ remote = EmptyMap
    /\ routes = <<>>
    /\ ops = 0
    /\ last = [op |-> "search", offset |-> 0, all_items |-> <<>>]
    /\ inp \in [page_size : PageSizes]
    /\ pc = "loop"

\* one turn of the loop of _search_store_paginated; ops counts the requests
SearchPage ==
    /\ pc = "loop"
    /\ LET page_items == StoreSearch(store, inp.page_size, last.offset)
       IN IF page_items = <<>>
          THEN /\ pc' = "returned"
               /\ last' = last
          ELSE /\ pc' = IF ShortPage(page_items, inp.page_size) THEN "returned" ELSE "loop"
               /\ last' = [last EXCEPT !.all_items = last.all_items \o page_items,
                                       !.offset = IF ShortPage(page_items, inp.page_size)
                                                  THEN last.offset
                                                  ELSE last.offset + inp.page_size]
    /\ ops' = ops + 1
    /\ UNCHANGED <<files, pending, store, disk, remote, routes, inp>>

NextPaging == SearchPage

SpecPaging == InitPaging /\ [][NextPaging]_vars

\* the loop is a sequential program: it takes its next turn
SpecPagingFair == SpecPaging /\ WF_vars(SearchPage)

\* the fetch has returned every item once, in order, with at most
\* floor(n / page_size) + 1 requests
ReturnedAll ==
    /\ pc = "returned"
    /\ last.all_items = store
    /\ ops <= (Len(store) \div inp.page_size) + 1

\* C29: for a namespace of n >= 0 items that does not change, the paged fetch
\* terminates and returns every item exactly once, n = 0 and the multiples of
\* the page size included, after at most floor(n / page_size) + 1 requests.
C29_PagedFetchTerminates == <>[]ReturnedAll

\* a namespace of two full pages: the third request gets the empty page
C29_Witness ==
    /\ pc = "returned"
    /\ inp.page_size = 2
    /\ Len(store) = 4
    /\ ops = 3
    /\ last.all_items = store

====
